---- MODULE Spec2Model ----
(***************************************************************************)
(* Model of the text-editing core of kebaren/ai_editor (package            *)
(* textbuffer): the TextBuffer public operations of text_buffer.go over    *)
(* the GapBuffer of memory_monitor.go (third file of that concatenation,   *)
(* lines 986-1974) and the UndoStack of undo_stack.go.                     *)
(*                                                                         *)
(* Representation.                                                         *)
(*  - A rune is its code point (an integer).  A Go string is the sequence  *)
(*    of its runes; where the code indexes a string by BYTE (range over a  *)
(*    string, len(s), s[i:j]) the model converts with Utf8Len.             *)
(*  - The gap buffer is modelled by its logical content                    *)
(*    buffer[0:gapStart] ++ buffer[gapEnd:] (field buf) together with its  *)
(*    three caches; the position of the gap is not part of this model.     *)
(*  - Every public operation is one action: the handler is an operator     *)
(*    from the buffer record to the buffer record, built from the steps of *)
(*    the code in their order (Lock, the body, Unlock, triggerEvent).      *)
(*    The fields events, writes, blocked and err of the record observe the *)
(*    call: which events it triggered and which lock the caller held at    *)
(*    that moment, which guarded fields it wrote under which lock, whether *)
(*    it blocked forever on the buffer's own lock, and what it returned.   *)
(***************************************************************************)
EXTENDS Integers, Sequences, FiniteSets, TLC

(***************************************************************************)
(* Bounds of the model.                                                    *)
(***************************************************************************)
\* longest text the buffer may hold
MaxLen == 3
\* number of undo records pushed in one behaviour
MaxEdits == 2
MaxCalls == 4
MaxAnyCalls == 3
MaxPushes == 103
MaxUndos == 2

(***************************************************************************)
(* Runes and strings.                                                      *)
(***************************************************************************)
\* '\n', memory_monitor.go:1599
LF == 10
\* '\r', text_buffer.go:179
CR == 13

\* the runes the inputs are drawn from: 'a', '\n' and U+00E9 (a letter of two
\* UTF-8 bytes)
Alphabet == {97, LF, 233}

\* all strings over S of length lo..hi
StringsOver(S, lo, hi) == UNION {[1..n -> S] : n \in lo..hi}

\* number of bytes of the UTF-8 encoding of rune r
Utf8Len(r) == IF r < 128 THEN 1 ELSE IF r < 2048 THEN 2 ELSE IF r < 65536 THEN 3 ELSE 4

\* len(s) of a Go string: its length in bytes
RECURSIVE ByteLen(_)
ByteLen(s) == IF s = <<>> THEN 0 ELSE Utf8Len(Head(s)) + ByteLen(Tail(s))

\* s[a:b] on rune indices, 0-based, half-open
Slice(s, a, b) == IF a >= b THEN <<>> ELSE SubSeq(s, a + 1, b)

\* strings.ReplaceAll(s, old, new) for a non-empty old
RECURSIVE StrReplaceAll(_, _, _)
StrReplaceAll(s, old, new) ==
    IF Len(s) < Len(old) THEN s
    ELSE IF SubSeq(s, 1, Len(old)) = old
         THEN new \o StrReplaceAll(SubSeq(s, Len(old) + 1, Len(s)), old, new)
         ELSE <<Head(s)>> \o StrReplaceAll(Tail(s), old, new)

\* strings.Contains(s, sub)
StrContains(s, sub) ==
    \E i \in 0..(Len(s) - Len(sub)) : SubSeq(s, i + 1, i + Len(sub)) = sub

(***************************************************************************)
(* Go strings as bytes: what strings.Index, s[i:j], len(s), s[i] and       *)
(* strings.ToLower see.                                                    *)
(***************************************************************************)
\* utf8.RuneError
RuneError == 65533

\* the UTF-8 encoding of one rune (up to three bytes)
EncodeRune(r) ==
    IF r < 128 THEN <<r>>
    ELSE IF r < 2048 THEN <<192 + (r \div 64), 128 + (r % 64)>>
    ELSE <<224 + (r \div 4096), 128 + ((r \div 64) % 64), 128 + (r % 64)>>

\* string(runes): the bytes of a string
RECURSIVE Utf8Encode(_)
Utf8Encode(runes) ==
    IF runes = <<>> THEN <<>> ELSE EncodeRune(Head(runes)) \o Utf8Encode(Tail(runes))

IsContinuation(b) == b >= 128 /\ b < 192

\* utf8.DecodeRune on the front of bytes: <<rune, width>>; a byte that starts
\* no valid encoding decodes to RuneError of width 1
DecodeFirst(bytes) ==
    LET b0 == bytes[1]
    IN IF b0 < 128 THEN <<b0, 1>>
       ELSE IF b0 >= 194 /\ b0 < 224 /\ Len(bytes) >= 2 /\ IsContinuation(bytes[2])
            THEN <<(b0 - 192) * 64 + (bytes[2] - 128), 2>>
       ELSE IF b0 >= 224 /\ b0 < 240 /\ Len(bytes) >= 3 /\ IsContinuation(bytes[2])
               /\ IsContinuation(bytes[3])
               /\ (b0 - 224) * 4096 + (bytes[2] - 128) * 64 + (bytes[3] - 128) >= 2048
            THEN <<(b0 - 224) * 4096 + (bytes[2] - 128) * 64 + (bytes[3] - 128), 3>>
       ELSE <<RuneError, 1>>

\* []rune(s): the runes of a string given by its bytes
RECURSIVE Utf8Decode(_)
Utf8Decode(bytes) ==
    IF bytes = <<>> THEN <<>>
    ELSE LET d == DecodeFirst(bytes)
         IN <<d[1]>> \o Utf8Decode(SubSeq(bytes, d[2] + 1, Len(bytes)))

\* unicode.ToLower on the runes below U+0100 (others are left alone here)
RuneToLower(r) ==
    IF (r >= 65 /\ r <= 90) \/ (r >= 192 /\ r <= 222 /\ r # 215) THEN r + 32 ELSE r

\* strings.ToLower(s) on bytes: every rune lowered, every invalid byte
\* replaced by the encoding of RuneError
StrToLower(bytes) ==
    LET runes == Utf8Decode(bytes)
    IN Utf8Encode([i \in 1..Len(runes) |-> RuneToLower(runes[i])])

\* strings.Index(s, substr): byte index of the first occurrence, or -1
StrIndex(bytes, substr) ==
    LET hits == {i \in 0..(Len(bytes) - Len(substr)) :
                    SubSeq(bytes, i + 1, i + Len(substr)) = substr}
    IN IF hits = {} THEN -1 ELSE CHOOSE i \in hits : \A j \in hits : i <= j

\* strings.LastIndex(s, substr)
StrLastIndex(bytes, substr) ==
    LET hits == {i \in 0..(Len(bytes) - Len(substr)) :
                    SubSeq(bytes, i + 1, i + Len(substr)) = substr}
    IN IF hits = {} THEN -1 ELSE CHOOSE i \in hits : \A j \in hits : i >= j

\* strings.Count(s, substr): non-overlapping occurrences; for an empty substr
\* one more than the number of runes
RECURSIVE StrCount(_, _)
StrCount(bytes, substr) ==
    IF substr = <<>> THEN Len(Utf8Decode(bytes)) + 1
    ELSE LET i == StrIndex(bytes, substr)
         IN IF i = -1 THEN 0
            ELSE 1 + StrCount(SubSeq(bytes, i + Len(substr) + 1, Len(bytes)), substr)

\* unicode.IsLetter(r) || unicode.IsNumber(r) || r == '_' for r below U+0100
isWordChar(r) ==
    \/ (r >= 48 /\ r <= 57) \/ (r >= 65 /\ r <= 90) \/ (r >= 97 /\ r <= 122) \/ r = 95
    \/ r \in {170, 178, 179, 181, 185, 186, 188, 189, 190}
    \/ (r >= 192 /\ r <= 255 /\ r # 215 /\ r # 247)

(***************************************************************************)
(* GapBuffer (memory_monitor.go:1050-1643).                                *)
(***************************************************************************)
\* NewGapBuffer
NewGapBuffer ==
    [buf |-> <<>>,
     cachedText |-> <<>>, textCacheValid |-> TRUE,
     cachedLineCount |-> 1, lineCountCacheValid |-> TRUE,
     lineStartCache |-> <<0>>, lineStartCacheValid |-> TRUE]

\* GetLength: gb.size
gbGetLength(gb) == Len(gb.buf)

\* the string GetText builds when the cache is not valid: the content with
\* every "\x00" removed
gbBuildText(gb) == SelectSeq(gb.buf, LAMBDA r : r # 0)

\* GetText: the value returned
gbGetText(gb) ==
    IF gbGetLength(gb) = 0 THEN <<>>
    ELSE IF gb.textCacheValid THEN gb.cachedText
    ELSE gbBuildText(gb)

\* GetText: the buffer after the call (the text cache is filled)
gbAfterGetText(gb) ==
    IF gbGetLength(gb) = 0 \/ gb.textCacheValid THEN gb
    ELSE [gb EXCEPT !.cachedText = gbBuildText(gb), !.textCacheValid = TRUE]

\* the line starts as the scan would collect them if it counted the runes
\* and not the bytes of text
RECURSIVE LineStartsFromRunes(_, _)
LineStartsFromRunes(text, byteIndex) ==
    IF text = <<>> THEN <<>>
    ELSE (IF Head(text) = LF THEN <<byteIndex + 1>> ELSE <<>>)
         \o LineStartsFromRunes(Tail(text), byteIndex + 1)

\* the line starts updateLineStartCache collects from text: "for i, ch :=
\* range text" gives i the BYTE index of ch
RECURSIVE LineStartsFrom(_, _)
LineStartsFrom(text, byteIndex) ==
    IF text = <<>> THEN <<>>
    ELSE (IF Head(text) = LF THEN <<byteIndex + 1>> ELSE <<>>)
         \o LineStartsFrom(Tail(text), byteIndex + Utf8Len(Head(text)))

\* updateLineStartCache: the buffer after the call
gbUpdateLineStartCache(gb) ==
    IF gb.lineStartCacheValid THEN gb
    ELSE IF gbGetLength(gb) = 0
         THEN [gb EXCEPT !.lineStartCache = <<0>>, !.lineStartCacheValid = TRUE]
         ELSE [gbAfterGetText(gb) EXCEPT
                 !.lineStartCache = <<0>> \o LineStartsFrom(gbGetText(gb), 0),
                 !.lineStartCacheValid = TRUE]

\* GetLineCount: the value returned
gbGetLineCount(gb) ==
    IF gb.lineCountCacheValid THEN gb.cachedLineCount
    ELSE Len(gbUpdateLineStartCache(gb).lineStartCache)

\* GetLineCount: the buffer after the call
gbAfterGetLineCount(gb) ==
    IF gb.lineCountCacheValid THEN gb
    ELSE [gbUpdateLineStartCache(gb) EXCEPT
            !.cachedLineCount = Len(gbUpdateLineStartCache(gb).lineStartCache),
            !.lineCountCacheValid = TRUE]

\* GetOffsetAt: the value returned (lineStartCache is 0-based in the code)
gbGetOffsetAt(gb, position) ==
    IF position.Line < 0 \/ position.Column < 0 THEN 0
    ELSE LET cache == gbUpdateLineStartCache(gb).lineStartCache
             size == gbGetLength(gb)
         IN IF position.Line >= Len(cache) THEN size
            ELSE LET lineStart == cache[position.Line + 1]
                     lineEnd == IF position.Line < Len(cache) - 1
                                THEN cache[position.Line + 2] - 1
                                ELSE size
                     column == IF lineStart + position.Column > lineEnd
                               THEN lineEnd - lineStart
                               ELSE position.Column
                 IN lineStart + column

\* GetOffsetAt: the buffer after the call
gbAfterGetOffsetAt(gb, position) ==
    IF position.Line < 0 \/ position.Column < 0 THEN gb
    ELSE gbUpdateLineStartCache(gb)

\* GetPositionAt: the value returned
gbGetPositionAt(gb, offset) ==
    IF offset < 0 THEN [Line |-> 0, Column |-> 0]
    ELSE IF offset >= gbGetLength(gb)
    THEN LET lineCount == gbGetLineCount(gb)
             cache == gbUpdateLineStartCache(gb).lineStartCache
             lastLine == lineCount - 1
             lastLineStart == IF lastLine < 0 \/ lastLine >= Len(cache) THEN 0
                              ELSE cache[lastLine + 1]
         IN IF lineCount = 0 THEN [Line |-> 0, Column |-> 0]
            ELSE [Line |-> lastLine, Column |-> gbGetLength(gb) - lastLineStart]
    ELSE LET cache == gbUpdateLineStartCache(gb).lineStartCache
             \* the binary search ends on the last line start <= offset
             line == CHOOSE l \in 0..(Len(cache) - 1) :
                        /\ cache[l + 1] <= offset
                        /\ \A m \in 0..(Len(cache) - 1) : cache[m + 1] <= offset => m <= l
         IN [Line |-> line, Column |-> offset - cache[line + 1]]

\* GetPositionAt: the buffer after the call
gbAfterGetPositionAt(gb, offset) ==
    IF offset < 0 THEN gb
    ELSE IF offset >= gbGetLength(gb) THEN gbUpdateLineStartCache(gbAfterGetLineCount(gb))
    ELSE gbUpdateLineStartCache(gb)

\* GetLineContent(lineIndex): the value returned.  start and end are byte
\* indices into the string GetText returns
gbGetLineContent(gb, lineIndex) ==
    IF lineIndex < 0 THEN <<>>
    ELSE LET cache == gbUpdateLineStartCache(gb).lineStartCache
             text == Utf8Encode(gbGetText(gb))
         IN IF lineIndex >= Len(cache) \/ text = <<>> THEN <<>>
            ELSE LET start == cache[lineIndex + 1]
                     next == IF lineIndex < Len(cache) - 1 THEN cache[lineIndex + 2]
                             ELSE Len(text)
                     end == IF next > Len(text) THEN Len(text) ELSE next
                 IN IF start < end /\ start < Len(text)
                    THEN Utf8Decode(SubSeq(text, start + 1, end))
                    ELSE <<>>

\* GetLineContent: the buffer after the call
gbAfterGetLineContent(gb, lineIndex) ==
    IF lineIndex < 0 THEN gb
    ELSE IF lineIndex >= Len(gbUpdateLineStartCache(gb).lineStartCache)
    THEN gbUpdateLineStartCache(gb)
    ELSE gbAfterGetText(gbUpdateLineStartCache(gb))

\* GetLines: the value returned
gbGetLines(gb) ==
    LET cache == gbUpdateLineStartCache(gb).lineStartCache
        text == Utf8Encode(gbGetText(gb))
    IN IF text = <<>> THEN << <<>> >>
       ELSE [i \in 1..Len(cache) |->
               LET start == cache[i]
                   end == IF i < Len(cache) THEN cache[i + 1] ELSE Len(text)
               IN IF start < end /\ start < Len(text)
                  THEN Utf8Decode(SubSeq(text, start + 1, end))
                  ELSE <<>>]

\* GetLines: the buffer after the call
gbAfterGetLines(gb) == gbAfterGetText(gbUpdateLineStartCache(gb))

\* GetTextInRange(start, end)
gbGetTextInRange(gb, start, end) ==
    IF start < 0 \/ end > gbGetLength(gb) \/ start >= end THEN <<>>
    ELSE Slice(gb.buf, start, end)

\* the cache flags as a mutation would leave them if it did not clear
\* lineCountCacheValid: the line count of before the mutation stays cached
gbInvalidateKeepingLineCount(gb) ==
    [gb EXCEPT !.textCacheValid = FALSE, !.lineStartCacheValid = FALSE,
               !.cachedText = <<>>, !.lineStartCache = <<>>]

\* the cache flags as a mutation would leave them if it did not clear
\* textCacheValid: the text of before the mutation stays cached
gbInvalidateKeepingText(gb) ==
    [gb EXCEPT !.lineCountCacheValid = FALSE, !.lineStartCacheValid = FALSE,
               !.cachedLineCount = 0, !.lineStartCache = <<>>]

\* the three cache flags cleared, as every mutation does on its way out.  The
\* code leaves the stale values in place; they are never read before they are
\* rebuilt (every reader tests the flag first), and the model holds a cached
\* value only while its flag is set
gbInvalidate(gb) ==
    [gb EXCEPT !.textCacheValid = FALSE, !.lineCountCacheValid = FALSE,
               !.lineStartCacheValid = FALSE,
               !.cachedText = <<>>, !.cachedLineCount = 0, !.lineStartCache = <<>>]

\* Insert(position, text)
gbInsert(gb, position, text) ==
    IF text = <<>> THEN gb
    ELSE LET pos == IF position < 0 THEN 0
                    ELSE IF position > gbGetLength(gb) THEN gbGetLength(gb)
                    ELSE position
         IN gbInvalidate([gb EXCEPT !.buf = Slice(gb.buf, 0, pos) \o text
                                           \o Slice(gb.buf, pos, Len(gb.buf))])

\* Delete(start, end)
gbDelete(gb, start, end) ==
    IF start < 0 \/ end > gbGetLength(gb) \/ start >= end THEN gb
    ELSE gbInvalidate([gb EXCEPT !.buf = Slice(gb.buf, 0, start)
                                          \o Slice(gb.buf, end, Len(gb.buf))])

\* Clear
gbClear(gb) == gbInvalidate([gb EXCEPT !.buf = <<>>])

\* SetText(text)
gbSetText(gb, text) == gbInvalidate([gb EXCEPT !.buf = text])

\* NewGapBufferWithText(text)
NewGapBufferWithText(text) ==
    IF text # <<>> THEN gbSetText(NewGapBuffer, text) ELSE NewGapBuffer

(***************************************************************************)
(* UndoStack (undo_stack.go).                                              *)
(***************************************************************************)
\* NewUndoStack: maxStackSize
maxStackSize == 100

OperationInsert == "OperationInsert"
OperationDelete == "OperationDelete"
OperationReplace == "OperationReplace"
OperationClear == "OperationClear"
OperationSetText == "OperationSetText"

\* NewUndoStack
NewUndoStack == [undoStack |-> <<>>, redoStack |-> <<>>]

\* Push(operation) as it would be if it kept the redo stack
usPushKeepingRedo(us, operation) ==
    LET pushed == Append(us.undoStack, operation)
    IN [undoStack |-> IF Len(pushed) > maxStackSize THEN Tail(pushed) ELSE pushed,
        redoStack |-> us.redoStack]

\* Push(operation) as it would be if it dropped the newest record of a full
\* stack instead of the oldest
usPushDroppingNewest(us, operation) ==
    LET pushed == Append(us.undoStack, operation)
    IN [undoStack |-> IF Len(pushed) > maxStackSize
                      THEN SubSeq(pushed, 1, maxStackSize) ELSE pushed,
        redoStack |-> <<>>]

\* Push(operation)
usPush(us, operation) ==
    LET pushed == Append(us.undoStack, operation)
    IN [undoStack |-> IF Len(pushed) > maxStackSize THEN Tail(pushed) ELSE pushed,
        redoStack |-> <<>>]

\* an Undo that forgets the record it pops instead of keeping it for Redo
usUndoDroppingRedo(us) ==
    [undoStack |-> SubSeq(us.undoStack, 1, Len(us.undoStack) - 1),
     redoStack |-> us.redoStack]

\* Undo: the stack after a successful call (the caller tests CanUndo first)
usUndo(us) ==
    [undoStack |-> SubSeq(us.undoStack, 1, Len(us.undoStack) - 1),
     redoStack |-> Append(us.redoStack, us.undoStack[Len(us.undoStack)])]

\* Redo: the stack after a successful call
usRedo(us) ==
    [undoStack |-> Append(us.undoStack, us.redoStack[Len(us.redoStack)]),
     redoStack |-> SubSeq(us.redoStack, 1, Len(us.redoStack) - 1)]

\* CanUndo / CanRedo
usCanUndo(us) == Len(us.undoStack) > 0
usCanRedo(us) == Len(us.redoStack) > 0

\* Clear
usClear(us) == [undoStack |-> <<>>, redoStack |-> <<>>]

(***************************************************************************)
(* TextBuffer (text_buffer.go): the record a handler works on.             *)
(* Program fields: gapBuffer, undoStack, eolType, languageID, filePath,    *)
(* modified, mutex, disk (the files the buffer saves to and loads from).   *)
(* Observation fields of the running call: events, writes, blocked, err.   *)
(***************************************************************************)
EOLUnix == "EOLUnix"
EOLWindows == "EOLWindows"
EOLMac == "EOLMac"

EventTextChanged == "EventTextChanged"
EventLanguageChanged == "EventLanguageChanged"
EventModifiedChanged == "EventModifiedChanged"
EventFilePathChanged == "EventFilePathChanged"

\* detectEOLType(text)
detectEOLType(text) ==
    IF StrContains(text, <<CR, LF>>) THEN EOLWindows
    ELSE IF StrContains(text, <<CR>>) /\ ~StrContains(text, <<LF>>) THEN EOLMac
    ELSE EOLUnix

\* which lock the calling thread holds on tb.mutex
HeldMode(s) ==
    IF s.mutex.writer THEN "exclusive"
    ELSE IF s.mutex.readers > 0 THEN "shared"
    ELSE "none"

\* tb.mutex.Lock() by the one calling thread: sync.RWMutex is not reentrant,
\* so a Lock while the caller itself holds the mutex never returns
Lock(s) ==
    IF s.blocked THEN s
    ELSE IF s.mutex.writer \/ s.mutex.readers > 0 THEN [s EXCEPT !.blocked = TRUE]
    ELSE [s EXCEPT !.mutex.writer = TRUE]

\* tb.mutex.Unlock()
Unlock(s) == IF s.blocked THEN s ELSE [s EXCEPT !.mutex.writer = FALSE]

\* tb.mutex.RLock(): blocks while a writer holds the mutex; the only thread
\* that can hold it here is the caller
RLock(s) ==
    IF s.blocked THEN s
    ELSE IF s.mutex.writer THEN [s EXCEPT !.blocked = TRUE]
    ELSE [s EXCEPT !.mutex.readers = @ + 1]

\* tb.mutex.RUnlock()
RUnlock(s) == IF s.blocked THEN s ELSE [s EXCEPT !.mutex.readers = @ - 1]

\* an assignment to a field the mutex guards, observed with the lock held
Wr(s, field, value) ==
    IF s.blocked THEN s
    ELSE [s EXCEPT ![field] = value,
                   !.writes = @ \cup {[field |-> field, held |-> HeldMode(s)]}]

\* a GapBuffer method that may fill a cache: a write iff something changed
WrGb(s, gb) == IF gb = s.gapBuffer THEN s ELSE Wr(s, "gapBuffer", gb)

\* return err (a deferred unlock has already been applied by the handler)
Return(s, err) == IF s.blocked THEN s ELSE [s EXCEPT !.err = err]

\* triggerEvent(eventType, data): snapshots the listeners under RLock, then
\* dispatches on a new goroutine; held is what the caller held on entry
triggerEvent(s, eventType, operationType) ==
    LET locked == RLock(s)
        event == [Type |-> eventType, OperationType |-> operationType,
                  held |-> HeldMode(s)]
    IN IF locked.blocked THEN locked
       ELSE [RUnlock(locked) EXCEPT !.events = Append(@, event)]

\* tb.gapBuffer after Close: the nil pointer.  The fields say what the text
\* of a closed buffer is taken to be; a method that reads a field of the
\* GapBuffer through the nil pointer panics
NilGapBuffer ==
    [buf |-> <<>>,
     cachedText |-> <<>>, textCacheValid |-> FALSE,
     cachedLineCount |-> 0, lineCountCacheValid |-> FALSE,
     lineStartCache |-> <<>>, lineStartCacheValid |-> FALSE,
     nil |-> TRUE]

IsNil(gb) == "nil" \in DOMAIN gb

\* a panic of the calling goroutine: what it holds stays held
Panic(s, err) == IF s.blocked THEN s ELSE [s EXCEPT !.crashed = TRUE, !.err = err]

\* Insert(position, text)
Insert(s, position, text) ==
    IF text = <<>> THEN Return(s, "nil")
    ELSE IF IsNil(s.gapBuffer)
    THEN Panic(IF position.Line < 0 \/ position.Column < 0
               THEN Wr(Lock(s), "undoStack",
                       usPush(s.undoStack, [Type |-> OperationInsert, Position |-> position,
                                            Text |-> text, OldText |-> <<>>]))
               ELSE Lock(s),
               "nil pointer dereference")
    ELSE LET s1 == Lock(s)
             offset == gbGetOffsetAt(s1.gapBuffer, position)
             s2 == WrGb(s1, gbAfterGetOffsetAt(s1.gapBuffer, position))
             s3 == Wr(s2, "undoStack",
                      usPush(s2.undoStack, [Type |-> OperationInsert, Position |-> position,
                                            Text |-> text, OldText |-> <<>>]))
             s4 == Wr(s3, "gapBuffer", gbInsert(s3.gapBuffer, offset, text))
             s5 == Wr(s4, "modified", TRUE)
             s6 == Unlock(s5)
         IN Return(triggerEvent(s6, EventTextChanged, OperationInsert), "nil")

\* Delete(r) as it would be if the early return for an invalid range left the
\* lock held
DeleteHoldingLock(s, r) ==
    LET s1 == Lock(s)
        startOffset == gbGetOffsetAt(s1.gapBuffer, r.Start)
        s2 == WrGb(s1, gbAfterGetOffsetAt(s1.gapBuffer, r.Start))
        endOffset == gbGetOffsetAt(s2.gapBuffer, r.End)
        s3 == WrGb(s2, gbAfterGetOffsetAt(s2.gapBuffer, r.End))
    IN IF startOffset >= endOffset THEN Return(s3, "invalid range")
       ELSE LET oldText == gbGetTextInRange(s3.gapBuffer, startOffset, endOffset)
                s4 == Wr(s3, "undoStack",
                         usPush(s3.undoStack, [Type |-> OperationDelete, Position |-> r.Start,
                                               Text |-> oldText, OldText |-> oldText]))
                s5 == Wr(s4, "gapBuffer", gbDelete(s4.gapBuffer, startOffset, endOffset))
                s6 == Wr(s5, "modified", TRUE)
                s7 == Unlock(s6)
            IN Return(triggerEvent(s7, EventTextChanged, OperationDelete), "nil")

\* Delete(r)
Delete(s, r) ==
    IF IsNil(s.gapBuffer)
    THEN IF (r.Start.Line < 0 \/ r.Start.Column < 0) /\ (r.End.Line < 0 \/ r.End.Column < 0)
         THEN Return(Unlock(Lock(s)), "invalid range")
         ELSE Panic(Lock(s), "nil pointer dereference")
    ELSE
    LET s1 == Lock(s)
        startOffset == gbGetOffsetAt(s1.gapBuffer, r.Start)
        s2 == WrGb(s1, gbAfterGetOffsetAt(s1.gapBuffer, r.Start))
        endOffset == gbGetOffsetAt(s2.gapBuffer, r.End)
        s3 == WrGb(s2, gbAfterGetOffsetAt(s2.gapBuffer, r.End))
    IN IF startOffset >= endOffset THEN Return(Unlock(s3), "invalid range")
       ELSE LET oldText == gbGetTextInRange(s3.gapBuffer, startOffset, endOffset)
                s4 == Wr(s3, "undoStack",
                         usPush(s3.undoStack, [Type |-> OperationDelete, Position |-> r.Start,
                                               Text |-> oldText, OldText |-> oldText]))
                s5 == Wr(s4, "gapBuffer", gbDelete(s4.gapBuffer, startOffset, endOffset))
                s6 == Wr(s5, "modified", TRUE)
                s7 == Unlock(s6)
            IN Return(triggerEvent(s7, EventTextChanged, OperationDelete), "nil")

\* Replace(r, text)
Replace(s, r, text) ==
    LET s1 == Lock(s)
        startOffset == gbGetOffsetAt(s1.gapBuffer, r.Start)
        s2 == WrGb(s1, gbAfterGetOffsetAt(s1.gapBuffer, r.Start))
        endOffset == gbGetOffsetAt(s2.gapBuffer, r.End)
        s3 == WrGb(s2, gbAfterGetOffsetAt(s2.gapBuffer, r.End))
    IN IF startOffset > endOffset THEN Return(Unlock(s3), "invalid range")
       ELSE LET oldText == gbGetTextInRange(s3.gapBuffer, startOffset, endOffset)
                s4 == Wr(s3, "undoStack",
                         usPush(s3.undoStack, [Type |-> OperationReplace, Position |-> r.Start,
                                               Text |-> text, OldText |-> oldText]))
                s5 == Wr(s4, "gapBuffer",
                         gbInsert(gbDelete(s4.gapBuffer, startOffset, endOffset),
                                  startOffset, text))
                s6 == Wr(s5, "modified", TRUE)
                s7 == Unlock(s6)
            IN Return(triggerEvent(s7, EventTextChanged, OperationReplace), "nil")

\* Undo()
Undo(s) ==
    LET s1 == Lock(s)
    IN IF ~usCanUndo(s1.undoStack) THEN Return(Unlock(s1), "no operation to undo")
       ELSE LET operation == s1.undoStack.undoStack[Len(s1.undoStack.undoStack)]
                s2 == Wr(s1, "undoStack", usUndo(s1.undoStack))
                startOffset == gbGetOffsetAt(s2.gapBuffer, operation.Position)
                s3 == IF operation.Type \in {OperationInsert, OperationDelete, OperationReplace}
                      THEN WrGb(s2, gbAfterGetOffsetAt(s2.gapBuffer, operation.Position))
                      ELSE s2
                s4 == CASE operation.Type = OperationInsert ->
                             Wr(s3, "gapBuffer",
                                gbDelete(s3.gapBuffer, startOffset,
                                         startOffset + Len(operation.Text)))
                        [] operation.Type = OperationDelete ->
                             Wr(s3, "gapBuffer",
                                gbInsert(s3.gapBuffer, startOffset, operation.OldText))
                        [] operation.Type = OperationReplace ->
                             Wr(s3, "gapBuffer",
                                gbInsert(gbDelete(s3.gapBuffer, startOffset,
                                                  startOffset + Len(operation.Text)),
                                         startOffset, operation.OldText))
                        [] OTHER -> s3
                s5 == Wr(s4, "modified", TRUE)
                s6 == Unlock(s5)
            IN Return(triggerEvent(s6, EventTextChanged, operation.Type), "nil")

\* Redo()
Redo(s) ==
    LET s1 == Lock(s)
    IN IF ~usCanRedo(s1.undoStack) THEN Return(Unlock(s1), "no operation to redo")
       ELSE LET operation == s1.undoStack.redoStack[Len(s1.undoStack.redoStack)]
                s2 == Wr(s1, "undoStack", usRedo(s1.undoStack))
                startOffset == gbGetOffsetAt(s2.gapBuffer, operation.Position)
                s3 == IF operation.Type \in {OperationInsert, OperationDelete, OperationReplace}
                      THEN WrGb(s2, gbAfterGetOffsetAt(s2.gapBuffer, operation.Position))
                      ELSE s2
                s4 == CASE operation.Type = OperationInsert ->
                             Wr(s3, "gapBuffer",
                                gbInsert(s3.gapBuffer, startOffset, operation.Text))
                        [] operation.Type = OperationDelete ->
                             Wr(s3, "gapBuffer",
                                gbDelete(s3.gapBuffer, startOffset,
                                         startOffset + Len(operation.OldText)))
                        [] operation.Type = OperationReplace ->
                             Wr(s3, "gapBuffer",
                                gbInsert(gbDelete(s3.gapBuffer, startOffset,
                                                  startOffset + Len(operation.OldText)),
                                         startOffset, operation.Text))
                        [] OTHER -> s3
                s5 == Wr(s4, "modified", TRUE)
                s6 == Unlock(s5)
            IN Return(triggerEvent(s6, EventTextChanged, operation.Type), "nil")

\* Clear() as it would be if it recorded the cleared text for Undo instead of
\* emptying the undo stack
ClearPushing(s) ==
    LET s1 == Lock(s)
        oldText == gbGetText(s1.gapBuffer)
        s2 == WrGb(s1, gbAfterGetText(s1.gapBuffer))
        s3 == Wr(s2, "gapBuffer", gbClear(s2.gapBuffer))
        s4 == Wr(s3, "undoStack",
                 usPush(s3.undoStack,
                        [Type |-> OperationClear, Position |-> [Line |-> 0, Column |-> 0],
                         Text |-> <<>>, OldText |-> oldText]))
        s5 == Wr(s4, "modified", TRUE)
        s6 == Unlock(s5)
    IN Return(triggerEvent(s6, EventTextChanged, OperationClear), "nil")

\* Clear()
Clear(s) ==
    LET s1 == Lock(s)
        s2 == WrGb(s1, gbAfterGetText(s1.gapBuffer))
        s3 == Wr(s2, "gapBuffer", gbClear(s2.gapBuffer))
        s4 == Wr(s3, "undoStack", usClear(s3.undoStack))
        s5 == Wr(s4, "modified", TRUE)
        s6 == Unlock(s5)
    IN Return(triggerEvent(s6, EventTextChanged, OperationClear), "nil")

\* SetText(text)
SetText(s, text) ==
    LET s1 == Lock(s)
        s2 == WrGb(s1, gbAfterGetText(s1.gapBuffer))
        s3 == Wr(s2, "gapBuffer", gbSetText(s2.gapBuffer, text))
        s4 == Wr(s3, "undoStack", usClear(s3.undoStack))
        s5 == Wr(s4, "modified", TRUE)
        s6 == Unlock(s5)
    IN Return(triggerEvent(s6, EventTextChanged, OperationSetText), "nil")

\* Close(); the Unlock is deferred.  The listener table it also drops is not
\* part of the handler's record
Close(s) ==
    LET s1 == Lock(s)
        s2 == IF IsNil(s1.gapBuffer) THEN s1 ELSE Wr(s1, "gapBuffer", NilGapBuffer)
    IN Return(Unlock(s2), "nil")

\* the line endings of text converted as SetEOLType's switch does
ConvertEOL(text, eolType) ==
    CASE eolType = EOLUnix ->
           StrReplaceAll(StrReplaceAll(text, <<CR, LF>>, <<LF>>), <<CR>>, <<LF>>)
      [] eolType = EOLWindows ->
           StrReplaceAll(StrReplaceAll(StrReplaceAll(text, <<CR, LF>>, <<LF>>),
                                       <<CR>>, <<LF>>),
                         <<LF>>, <<CR, LF>>)
      [] eolType = EOLMac ->
           StrReplaceAll(StrReplaceAll(text, <<CR, LF>>, <<CR>>), <<LF>>, <<CR>>)

\* SetEOLType(eolType); the Unlock is deferred
SetEOLType(s, eolType) ==
    LET s1 == Lock(s)
    IN IF s1.eolType = eolType THEN Return(Unlock(s1), "nil")
       ELSE LET text == gbGetText(s1.gapBuffer)
                s2 == WrGb(s1, gbAfterGetText(s1.gapBuffer))
            IN IF eolType \notin {EOLUnix, EOLWindows, EOLMac}
               THEN Return(Unlock(s2), "invalid EOL type")
               ELSE LET newText == ConvertEOL(text, eolType)
                        s3 == Wr(s2, "undoStack",
                                 usPush(s2.undoStack,
                                        [Type |-> OperationReplace,
                                         Position |-> [Line |-> 0, Column |-> 0],
                                         Text |-> newText, OldText |-> text]))
                        s4 == Wr(s3, "gapBuffer", gbSetText(s3.gapBuffer, newText))
                        s5 == Wr(s4, "eolType", eolType)
                    IN Return(Unlock(s5), "nil")

\* GetText()
GetText(s) ==
    LET s1 == RLock(s)
        s2 == WrGb(s1, gbAfterGetText(s1.gapBuffer))
    IN Return(RUnlock(s2), "nil")

\* GetLineCount()
GetLineCount(s) ==
    LET s1 == RLock(s)
        s2 == WrGb(s1, gbAfterGetLineCount(s1.gapBuffer))
    IN Return(RUnlock(s2), "nil")

\* GetOffsetAt(position)
GetOffsetAt(s, position) ==
    LET s1 == RLock(s)
        s2 == WrGb(s1, gbAfterGetOffsetAt(s1.gapBuffer, position))
    IN Return(RUnlock(s2), "nil")

\* GetLineContent(lineIndex)
GetLineContent(s, lineIndex) ==
    LET s1 == RLock(s)
        s2 == WrGb(s1, gbAfterGetLineContent(s1.gapBuffer, lineIndex))
    IN Return(RUnlock(s2), "nil")

\* GetLines()
GetLines(s) ==
    LET s1 == RLock(s)
        s2 == WrGb(s1, gbAfterGetLines(s1.gapBuffer))
    IN Return(RUnlock(s2), "nil")

\* GetPositionAt(offset)
GetPositionAt(s, offset) ==
    LET s1 == RLock(s)
        s2 == WrGb(s1, gbAfterGetPositionAt(s1.gapBuffer, offset))
    IN Return(RUnlock(s2), "nil")

\* SetLanguageID(languageID)
SetLanguageID(s, languageID) ==
    LET s1 == Lock(s)
        oldLanguageID == s1.languageID
        s2 == Unlock(Wr(s1, "languageID", languageID))
    IN IF oldLanguageID # languageID
       THEN Return(triggerEvent(s2, EventLanguageChanged, "-"), "nil")
       ELSE Return(s2, "nil")

\* SetFilePath(filePath)
SetFilePath(s, filePath) ==
    LET s1 == Lock(s)
        oldFilePath == s1.filePath
        s2 == Unlock(Wr(s1, "filePath", filePath))
    IN IF oldFilePath # filePath
       THEN Return(triggerEvent(s2, EventFilePathChanged, "-"), "nil")
       ELSE Return(s2, "nil")

\* SetModified(modified)
SetModified(s, modified) ==
    LET s1 == Lock(s)
        oldModified == s1.modified
        s2 == Unlock(Wr(s1, "modified", modified))
    IN IF oldModified # modified
       THEN Return(triggerEvent(s2, EventModifiedChanged, "-"), "nil")
       ELSE Return(s2, "nil")

(***************************************************************************)
(* Search and replace (text_buffer.go:537-897).  A pattern handed to       *)
(* package regexp is a literal string here, or holds an unclosed '(' (rune *)
(* 40), which regexp.Compile rejects.                                      *)
(***************************************************************************)
\* regexp.Compile(pattern) succeeds
regexpCompiles(pattern) == \A i \in 1..Len(pattern) : pattern[i] # 40

\* \w of package regexp: ASCII only
IsAsciiWord(r) == (r >= 48 /\ r <= 57) \/ (r >= 65 /\ r <= 90) \/ (r >= 97 /\ r <= 122) \/ r = 95

\* the byte offset at which rune k (1-based) of the decoded string starts
RECURSIVE RuneOffset(_, _)
RuneOffset(bytes, k) ==
    IF k <= 1 THEN 0
    ELSE DecodeFirst(bytes)[2]
         + RuneOffset(SubSeq(bytes, DecodeFirst(bytes)[2] + 1, Len(bytes)), k - 1)

\* the literal pattern matches the runes of the haystack from rune k on;
\* wholeWord wraps it in \b...\b, ~caseSensitive prefixes (?i)
RegexMatchesAt(runes, k, pattern, caseSensitive, wholeWord) ==
    LET n == Len(pattern)
        word(i) == i >= 1 /\ i <= Len(runes) /\ IsAsciiWord(runes[i])
    IN /\ k + n - 1 <= Len(runes)
       /\ \A j \in 1..n :
             IF caseSensitive THEN runes[k + j - 1] = pattern[j]
             ELSE RuneToLower(runes[k + j - 1]) = RuneToLower(pattern[j])
       /\ wholeWord => (word(k - 1) # word(k)) /\ (word(k + n - 1) # word(k + n))

\* re.FindAllStringIndex(s, -1): the non-overlapping matches, left to right,
\* as <<start, end>> byte indices
RECURSIVE RegexFindAllFrom(_, _, _, _, _, _)
RegexFindAllFrom(bytes, runes, k, pattern, caseSensitive, wholeWord) ==
    IF k > Len(runes) THEN <<>>
    ELSE IF RegexMatchesAt(runes, k, pattern, caseSensitive, wholeWord)
    THEN <<<<RuneOffset(bytes, k), RuneOffset(bytes, k + Len(pattern))>>>>
         \o RegexFindAllFrom(bytes, runes, k + Len(pattern), pattern, caseSensitive, wholeWord)
    ELSE RegexFindAllFrom(bytes, runes, k + 1, pattern, caseSensitive, wholeWord)

RegexFindAll(bytes, pattern, caseSensitive, wholeWord) ==
    RegexFindAllFrom(bytes, Utf8Decode(bytes), 1, pattern, caseSensitive, wholeWord)

\* re.ReplaceAllString(s, repl) for a repl without '$'
RECURSIVE RegexReplaceFrom(_, _, _, _)
RegexReplaceFrom(bytes, matches, from, repl) ==
    IF matches = <<>> THEN SubSeq(bytes, from + 1, Len(bytes))
    ELSE SubSeq(bytes, from + 1, Head(matches)[1]) \o repl
         \o RegexReplaceFrom(bytes, Tail(matches), Head(matches)[2], repl)

\* the byte at index i of a string is a word boundary for the whole-word test
\* of the plain search: rune(text[i]) is the BYTE at i taken as a code point
PlainWholeWord(text, index, matchLength) ==
    /\ index = 0 \/ ~isWordChar(text[index])
    /\ index + matchLength >= Len(text) \/ ~isWordChar(text[index + matchLength + 1])

\* searchFunc of FindNext / FindPrevious
SearchFunc(area, searchText, caseSensitive, last) ==
    LET hay == IF caseSensitive THEN area ELSE StrToLower(area)
        sub == IF caseSensitive THEN searchText ELSE StrToLower(searchText)
    IN IF last THEN StrLastIndex(hay, sub) ELSE StrIndex(hay, sub)

\* the ways a search ends the program: the unbounded recursion of a retry
\* that repeats its start position, and text[searchIndex-1] past the end of
\* text (searchIndex comes from the lower-cased search area, which is longer
\* than the area when the area starts inside a multi-byte rune)
Panics == {"stack overflow", "index out of range"}

\* the tail of FindNext / FindPrevious: the offsets converted to positions
Found(gb, searchIndex, matchLength) ==
    [err |-> "nil",
     Range |-> [Start |-> gbGetPositionAt(gb, searchIndex),
                End |-> gbGetPositionAt(gb, searchIndex + matchLength)],
     gb |-> gbAfterGetPositionAt(gbAfterGetPositionAt(gb, searchIndex),
                                 searchIndex + matchLength),
     retry |-> [Line |-> 0, Column |-> 0]]

\* the match a regex search takes: FindStringIndex the first, FindPrevious
\* the last of FindAllStringIndex
PickMatch(ms, previous) == IF previous THEN ms[Len(ms)] ELSE ms[1]

\* an activation of FindNext / FindPrevious that ends without a match
NotFound(err, gb) ==
    [err |-> err,
     Range |-> [Start |-> [Line |-> 0, Column |-> 0], End |-> [Line |-> 0, Column |-> 0]],
     gb |-> gb, retry |-> [Line |-> 0, Column |-> 0]]

\* the regex branch, given the matches in the search area and in the text
FindRegex(gb, startOffset, inArea, inText, previous) ==
    IF inArea # <<>>
    THEN Found(gb, (IF previous THEN 0 ELSE startOffset) + PickMatch(inArea, previous)[1],
               PickMatch(inArea, previous)[2] - PickMatch(inArea, previous)[1])
    ELSE IF inText # <<>>
    THEN Found(gb, PickMatch(inText, previous)[1],
               PickMatch(inText, previous)[2] - PickMatch(inText, previous)[1])
    ELSE NotFound("text not found", gb)

\* the plain branch from searchIndex on; err = "retry" where the code calls
\* itself again from the position retry
FindWord(gb, text, searchIndex, matchLength, wholeWord, retryAt) ==
    IF wholeWord /\ searchIndex > Len(text) THEN NotFound("index out of range", gb)
    ELSE IF wholeWord /\ ~PlainWholeWord(text, searchIndex, matchLength)
    THEN [NotFound("retry", gbAfterGetPositionAt(gb, retryAt))
            EXCEPT !.retry = gbGetPositionAt(gb, retryAt)]
    ELSE Found(gb, searchIndex, matchLength)

\* the plain branch, given index in the search area (first) and in the text
\* (again)
FindPlain(gb, text, startOffset, first, again, matchLength, wholeWord, previous) ==
    IF first = -1 /\ again = -1 THEN NotFound("text not found", gb)
    ELSE IF first = -1
    THEN FindWord(gb, text, again, matchLength, wholeWord,
                  IF previous THEN again ELSE again + 1)
    ELSE IF previous
    THEN FindWord(gb, text, first, matchLength, wholeWord, first)
    ELSE FindWord(gb, text, startOffset + first, matchLength, wholeWord,
                  startOffset + first + 1)

\* the search in searchArea, then in text
FindIn(gb, text, searchArea, startOffset, searchText, caseSensitive, wholeWord, regex, previous) ==
    IF regex
    THEN IF ~regexpCompiles(searchText) THEN NotFound("invalid regex pattern", gb)
         ELSE FindRegex(gb, startOffset,
                        RegexFindAll(searchArea, searchText, caseSensitive, wholeWord),
                        RegexFindAll(text, searchText, caseSensitive, wholeWord), previous)
    ELSE FindPlain(gb, text, startOffset,
                   SearchFunc(searchArea, Utf8Encode(searchText), caseSensitive, previous),
                   SearchFunc(text, Utf8Encode(searchText), caseSensitive, previous),
                   Len(Utf8Encode(searchText)), wholeWord, previous)

\* text[startOffset:] for FindNext, text[:startOffset] for FindPrevious:
\* startOffset counts runes, the slice bytes
FindArea(gb, text, startOffset, searchText, caseSensitive, wholeWord, regex, previous) ==
    FindIn(gb, text,
           IF previous THEN SubSeq(text, 1, startOffset)
           ELSE SubSeq(text, startOffset + 1, Len(text)),
           startOffset, searchText, caseSensitive, wholeWord, regex, previous)

\* the text of the buffer as the bytes of a Go string
FindText(gb, startOffset, searchText, caseSensitive, wholeWord, regex, previous) ==
    FindArea(gb, Utf8Encode(gbGetText(gb)), startOffset, searchText, caseSensitive,
             wholeWord, regex, previous)

\* one activation of FindNext / FindPrevious (previous = TRUE) on the gap
\* buffer: [err, Range, gb, retry]
FindOnce(gb, searchText, startPosition, caseSensitive, wholeWord, regex, previous) ==
    IF searchText = <<>> THEN NotFound("search text cannot be empty", gb)
    ELSE FindText(gbAfterGetText(gbAfterGetOffsetAt(gb, startPosition)),
                  gbGetOffsetAt(gb, startPosition), searchText, caseSensitive, wholeWord,
                  regex, previous)

\* FindNext / FindPrevious from the first activation through its retries.
\* seen holds the start positions already tried: a retry from one of them
\* repeats for ever, which the Go runtime ends with a fatal stack overflow.
RECURSIVE FindFrom(_, _, _, _, _, _, _, _)
FindRetry(r, searchText, startPosition, caseSensitive, wholeWord, regex, previous, seen) ==
    IF r.err # "retry" THEN r
    ELSE IF r.retry \in seen \cup {startPosition} THEN [r EXCEPT !.err = "stack overflow"]
    ELSE FindFrom(r.gb, searchText, r.retry, caseSensitive, wholeWord, regex, previous,
                  seen \cup {startPosition})

FindFrom(gb, searchText, startPosition, caseSensitive, wholeWord, regex, previous, seen) ==
    FindRetry(FindOnce(gb, searchText, startPosition, caseSensitive, wholeWord, regex,
                       previous),
              searchText, startPosition, caseSensitive, wholeWord, regex, previous, seen)

\* the end of FindNext / FindPrevious; the RUnlock is deferred and runs also
\* when the call panics
FindEnd(s, r) ==
    IF r.err \in Panics
    THEN [RUnlock(WrGb(s, r.gb)) EXCEPT !.crashed = TRUE, !.err = r.err]
    ELSE Return(RUnlock([WrGb(s, r.gb) EXCEPT !.result = r.Range]), r.err)

FindLocked(s, searchText, startPosition, caseSensitive, wholeWord, regex, previous) ==
    FindEnd(s, FindFrom(s.gapBuffer, searchText, startPosition, caseSensitive, wholeWord,
                        regex, previous, {}))

\* FindNext(searchText, startPosition, caseSensitive, wholeWord, regex)
FindNext(s, searchText, startPosition, caseSensitive, wholeWord, regex) ==
    FindLocked(RLock(s), searchText, startPosition, caseSensitive, wholeWord, regex, FALSE)

\* FindPrevious(searchText, startPosition, caseSensitive, wholeWord, regex)
FindPrevious(s, searchText, startPosition, caseSensitive, wholeWord, regex) ==
    FindLocked(RLock(s), searchText, startPosition, caseSensitive, wholeWord, regex, TRUE)

\* the loops of ReplaceAll (text_buffer.go:786-814 and 824-850) from
\* lastIndex on: <<the bytes written to sb, count>>.  hay and sub are what
\* strings.Index searches (lowered when case-insensitive), matchLength is
\* len(searchText)
RECURSIVE ReplaceLoop(_, _, _, _, _, _, _)
ReplaceLoop(text, hay, sub, matchLength, replaceText, wholeWord, lastIndex) ==
    LET found == StrIndex(SubSeq(hay, lastIndex + 1, Len(hay)), sub)
        index == found + lastIndex
    IN IF found = -1 THEN <<SubSeq(text, lastIndex + 1, Len(text)), 0>>
       ELSE IF wholeWord /\ ~PlainWholeWord(text, index, matchLength)
       THEN LET rest == ReplaceLoop(text, hay, sub, matchLength, replaceText, wholeWord,
                                    index + 1)
            IN <<SubSeq(text, lastIndex + 1, index + 1) \o rest[1], rest[2]>>
       ELSE LET rest == ReplaceLoop(text, hay, sub, matchLength, replaceText, wholeWord,
                                    index + matchLength)
            IN <<SubSeq(text, lastIndex + 1, index) \o replaceText \o rest[1], rest[2] + 1>>

\* newText and count as ReplaceAll computes them: <<bytes, count>>
ReplaceAllResult(text, searchText, replaceText, caseSensitive, wholeWord, regex) ==
    IF regex
    THEN LET newText == RegexReplaceFrom(text,
                            RegexFindAll(text, Utf8Decode(searchText), caseSensitive, wholeWord),
                            0, replaceText)
         IN <<newText, StrCount(newText, replaceText)>>
    ELSE IF ~caseSensitive
    THEN ReplaceLoop(text, StrToLower(text), StrToLower(searchText), Len(searchText),
                     replaceText, wholeWord, 0)
    ELSE IF wholeWord
    THEN ReplaceLoop(text, text, searchText, Len(searchText), replaceText, TRUE, 0)
    ELSE <<StrReplaceAll(text, searchText, replaceText), StrCount(text, searchText)>>

\* ReplaceAll(searchText, replaceText, caseSensitive, wholeWord, regex)
ReplaceAll(s, searchText, replaceText, caseSensitive, wholeWord, regex) ==
    IF searchText = <<>> THEN Return(s, "search text cannot be empty")
    ELSE LET s1 == Lock(s)
             text == gbGetText(s1.gapBuffer)
             s2 == WrGb(s1, gbAfterGetText(s1.gapBuffer))
         IN IF regex /\ ~regexpCompiles(searchText)
            THEN Return(Unlock(s2), "invalid regex pattern")
            ELSE LET res == ReplaceAllResult(Utf8Encode(text), Utf8Encode(searchText),
                                             Utf8Encode(replaceText), caseSensitive,
                                             wholeWord, regex)
                     newText == Utf8Decode(res[1])
                     count == res[2]
                 IN IF count = 0 THEN Return(Unlock(s2), "text not found")
                    ELSE LET s3 == Wr(s2, "undoStack",
                                      usPush(s2.undoStack,
                                             [Type |-> OperationReplace,
                                              Position |-> [Line |-> 0, Column |-> 0],
                                              Text |-> newText, OldText |-> text]))
                             s4 == Wr(s3, "gapBuffer", gbSetText(s3.gapBuffer, newText))
                             s5 == Wr(s4, "modified", TRUE)
                             s6 == Unlock(s5)
                             s7 == triggerEvent(s6, EventTextChanged, OperationReplace)
                         IN Return([s7 EXCEPT !.result = count], "nil")

(***************************************************************************)
(* Persistence (text_buffer.go:899-1185).  disk maps a path to the runes   *)
(* of the file's content, or to NoFile.  Texts are far below               *)
(* largeTextThreshold, so the direct (not chunked) branches run.           *)
(***************************************************************************)
NoFile == "no such file or directory"

\* detectLanguageFromExtension(strings.ToLower(filepath.Ext(filePath))) for
\* the paths of the model
LanguageOf(filePath) ==
    CASE filePath = "g.md" -> "markdown"
      [] OTHER -> "plaintext"

\* SaveToFile(filePath); the RUnlock is deferred
SaveToFile(s, filePath) ==
    LET s1 == RLock(s)
        path == IF filePath = "" THEN s1.filePath ELSE filePath
    IN IF path = "" THEN Return(RUnlock(s1), "no file path specified")
       ELSE LET text == gbGetText(s1.gapBuffer)
                s2 == WrGb(s1, gbAfterGetText(s1.gapBuffer))
                written == IF s2.eolType = EOLWindows
                           THEN StrReplaceAll(text, <<LF>>, <<CR, LF>>)
                           ELSE IF s2.eolType = EOLMac
                           THEN StrReplaceAll(text, <<LF>>, <<CR>>)
                           ELSE text
                s3 == [s2 EXCEPT !.disk[path] = written]
                s4 == IF s3.filePath # path
                      THEN triggerEvent(Wr(s3, "filePath", path), EventFilePathChanged, "-")
                      ELSE s3
                s5 == Wr(s4, "modified", FALSE)
                s6 == triggerEvent(s5, EventModifiedChanged, "-")
            IN Return(RUnlock(s6), "nil")

\* LoadFromFile(filePath); the Unlock is deferred
LoadFromFile(s, filePath) ==
    IF s.disk[filePath] = NoFile THEN Return(s, "file does not exist")
    ELSE LET languageID == LanguageOf(filePath)
             s1 == Lock(s)
             content == s1.disk[filePath]
             s2 == Wr(s1, "eolType", detectEOLType(content))
             text == IF s2.eolType = EOLWindows
                     THEN StrReplaceAll(content, <<CR, LF>>, <<LF>>)
                     ELSE IF s2.eolType = EOLMac
                     THEN StrReplaceAll(content, <<CR>>, <<LF>>)
                     ELSE content
             s3 == Wr(s2, "gapBuffer", gbSetText(s2.gapBuffer, text))
             s4 == Wr(s3, "undoStack", usClear(s3.undoStack))
             oldPath == s4.filePath
             s5 == Wr(s4, "filePath", filePath)
             oldLanguageID == s5.languageID
             s6 == Wr(s5, "languageID", languageID)
             s7 == Wr(s6, "modified", FALSE)
             s8 == IF oldPath # filePath
                   THEN triggerEvent(s7, EventFilePathChanged, "-")
                   ELSE s7
             s9 == IF oldLanguageID # languageID
                   THEN triggerEvent(s8, EventLanguageChanged, "-")
                   ELSE s8
             s10 == triggerEvent(s9, EventModifiedChanged, "-")
             s11 == IF s10.blocked THEN s10 ELSE WrGb(s10, gbAfterGetText(s10.gapBuffer))
             s12 == triggerEvent(s11, EventTextChanged, OperationSetText)
         IN Return(Unlock(s12), "nil")

(***************************************************************************)
(* MemoryPool (memory_pool.go).  A buffer is known by its capacity: the    *)
(* pool hands it out with length 0.  pools maps a size step to the buffers *)
(* its sync.Pool holds.  The size steps are scaled down from 128 ..        *)
(* 4194304.                                                                *)
(***************************************************************************)
sizeSteps == <<1, 2, 4>>

\* NewMemoryPool(maxSize)
NewMemoryPool(maxSize) ==
    [pools |-> [size \in {sizeSteps[i] : i \in 1..Len(sizeSteps)} |-> <<>>],
     maxSize |-> maxSize]

\* the first size step >= n, 0 when there is none: poolSize after the loop
FirstStep(n) ==
    IF \E i \in 1..Len(sizeSteps) : sizeSteps[i] >= n
    THEN sizeSteps[CHOOSE i \in 1..Len(sizeSteps) :
                      /\ sizeSteps[i] >= n
                      /\ \A j \in 1..(i - 1) : sizeSteps[j] < n]
    ELSE 0

\* sync.Pool.Get() on a pool whose New makes a buffer of capacity size: any
\* buffer the pool holds, or a new one
PoolGet(mp, size) ==
    {[cap |-> size, mp |-> mp]}
    \cup {[cap |-> mp.pools[size][i],
           mp |-> [mp EXCEPT !.pools[size] = SubSeq(@, 1, i - 1) \o SubSeq(@, i + 1, Len(@))]] :
             i \in 1..Len(mp.pools[size])}

\* GetBuffer(minSize): the buffers it may return, each with the pool after
GetBuffer(mp, minSize) ==
    IF minSize > mp.maxSize THEN {[cap |-> minSize, mp |-> mp]}
    ELSE PoolGet(mp, IF FirstStep(minSize) = 0 THEN sizeSteps[Len(sizeSteps)]
                     ELSE FirstStep(minSize))

\* PutBuffer(buf) for a buf of capacity capacity
PutBuffer(mp, capacity) ==
    IF capacity > mp.maxSize \/ FirstStep(capacity) = 0 THEN mp
    ELSE [mp EXCEPT !.pools[FirstStep(capacity)] = Append(@, capacity)]

\* the maximum size the pool of the model is made with
poolMaxSize == 6

(***************************************************************************)
(* State.                                                                  *)
(***************************************************************************)
VARIABLES
    gapBuffer,   \* tb.gapBuffer
    undoStack,   \* tb.undoStack
    eolType,     \* tb.eolType
    languageID,  \* tb.languageID
    filePath,    \* tb.filePath
    modified,    \* tb.modified
    mutex,       \* tb.mutex: [writer, readers]
    disk,        \* the files: path -> content or NoFile
    call,        \* the last call: what was called and what it did
    history,     \* the texts T0..Tn of an edit/undo/redo run since construction
    stack,       \* an UndoStack of its own, for the specification of the log alone
    stackLog,    \* the Push and Undo calls made on stack since it was last empty
    threads,     \* the goroutines calling into the buffer: where each one stands
    dispatch,    \* the listeners, the goroutines triggerEvent started, the deliveries
    pool,        \* a MemoryPool
    savedText    \* the text at the last successful SaveToFile or LoadFromFile

vars == <<gapBuffer, undoStack, eolType, languageID, filePath, modified, mutex, disk,
          call, history, stack, stackLog, threads, dispatch, pool, savedText>>

Paths == {"f.txt", "g.md"}

\* the goroutines that call into the buffer concurrently
Threads == {"t1", "t2"}

\* a goroutine that is not inside a call: op and result are those of its last
\* call, legal the results that call has in a sequential execution
Idle == [pc |-> "idle", op |-> "-", rest |-> <<>>, result |-> 0, legal |-> {}, calls |-> 0]

\* the record a handler starts from
Self ==
    [gapBuffer |-> gapBuffer, undoStack |-> undoStack, eolType |-> eolType,
     languageID |-> languageID, filePath |-> filePath, modified |-> modified,
     mutex |-> mutex, disk |-> disk,
     events |-> <<>>, writes |-> {}, blocked |-> FALSE, crashed |-> FALSE,
     err |-> "nil", result |-> 0]

\* GetText() of the buffer as it stands
Text == gbGetText(gapBuffer)

\* 1 + the number of '\n' in text
RECURSIVE TrueLineCount(_)
TrueLineCount(text) ==
    IF text = <<>> THEN 1
    ELSE (IF Head(text) = LF THEN 1 ELSE 0) + TrueLineCount(Tail(text))

\* the runes of line l of text (0-based), without its newline
RECURSIVE TrueLine(_, _)
TrueLine(text, l) ==
    IF text = <<>> THEN <<>>
    ELSE IF Head(text) = LF
         THEN (IF l = 0 THEN <<>> ELSE TrueLine(Tail(text), l - 1))
         ELSE (IF l = 0 THEN <<Head(text)>> ELSE <<>>) \o TrueLine(Tail(text), l)

\* position is addressable in text: line < line count, column <= line length
Addressable(text, position) ==
    /\ position.Line >= 0 /\ position.Line < TrueLineCount(text)
    /\ position.Column >= 0 /\ position.Column <= Len(TrueLine(text, position.Line))

NoPosition == [Line |-> 0, Column |-> 0]

LogOps == {"Insert", "Delete", "Replace", "ReplaceAll", "SetEOLType"}

\* the edit/undo/redo run the call op extends, having ended in s: phase "edit"
\* collects the texts T0..Tn of n successful Insert / Delete / Replace calls
\* at addressable positions, phase "undo" counts the Undo calls that follow
\* them, phase "redo" the Redo calls that follow n Undo calls
NextHistory(op, s, start, end) ==
    LET n == Len(history.texts) - 1
        off == [phase |-> "off", texts |-> <<>>, k |-> 0]
        edit == /\ op \in {"Insert", "Delete", "Replace"}
                /\ s.err = "nil" /\ s.undoStack # undoStack
                /\ Addressable(Text, start) /\ Addressable(Text, end)
    IN CASE history.phase = "edit" /\ edit ->
                [history EXCEPT !.texts = Append(@, gbGetText(s.gapBuffer))]
         [] history.phase = "edit" /\ n >= 1 /\ op = "Undo" ->
                [history EXCEPT !.phase = "undo", !.k = 1]
         [] history.phase = "undo" /\ history.k < n /\ op = "Undo" ->
                [history EXCEPT !.k = @ + 1]
         [] history.phase = "undo" /\ history.k = n /\ op = "Redo" ->
                [history EXCEPT !.phase = "redo", !.k = 1]
         [] history.phase = "redo" /\ history.k < n /\ op = "Redo" ->
                [history EXCEPT !.k = @ + 1]
         [] OTHER -> off

\* the calls that led here, as far as they form one of the sequences
\* edit; Undo; edit'; Redo and edit; Clear / SetText; Undo (edit: a call that
\* pushed an undo record; edit; Clear: a Clear with a record to undo)
NextRun(op, s) ==
    LET pushed == op \in LogOps /\ s.undoStack # undoStack
    IN CASE pushed /\ call.run = "edit;Undo" -> "edit;Undo;edit"
         [] pushed -> "edit"
         [] op = "Undo" /\ s.err = "nil" /\ call.run \in {"edit", "edit;Undo;edit"} ->
                "edit;Undo"
         [] op = "Redo" /\ call.run = "edit;Undo;edit" -> "edit;Undo;edit;Redo"
         [] op \in {"Clear", "SetText"} ->
                IF usCanUndo(undoStack) THEN "edit;" \o op ELSE op
         [] op = "Undo" /\ call.run \in {"edit;Clear", "edit;SetText"} ->
                call.run \o ";Undo"
         [] OTHER -> "-"

\* the call op, with positions start and end, ran from Self to s
Complete(op, s, start, end) ==
    /\ ~call.blocked /\ ~call.crashed
    /\ Len(s.gapBuffer.buf) <= MaxLen
    /\ Len(s.undoStack.undoStack) + Len(s.undoStack.redoStack) <= MaxEdits
    /\ gapBuffer' = s.gapBuffer
    /\ undoStack' = s.undoStack
    /\ eolType' = s.eolType
    /\ languageID' = s.languageID
    /\ filePath' = s.filePath
    /\ modified' = s.modified
    /\ mutex' = s.mutex
    /\ disk' = s.disk
    /\ call' = [op |-> op, calls |-> call.calls + 1, err |-> s.err, events |-> s.events, writes |-> s.writes,
                blocked |-> s.blocked, crashed |-> s.crashed,
                pushed |-> op \in LogOps /\ s.undoStack # undoStack,
                run |-> NextRun(op, s),
                preText |-> IF op \in LogOps \cup {"Undo", "Redo", "Clear", "SetText"}
                               /\ s.err = "nil"
                            THEN Text ELSE <<>>,
                addressable |-> [start |-> s.err = "nil" /\ Addressable(Text, start),
                                 end |-> s.err = "nil" /\ Addressable(Text, end)]]
    /\ history' = NextHistory(op, s, start, end)
    /\ UNCHANGED <<stack, stackLog, threads, dispatch, pool, savedText>>

(***************************************************************************)
(* Inputs.                                                                 *)
(***************************************************************************)
Positions == {[Line |-> 0, Column |-> 0], [Line |-> 0, Column |-> 1], [Line |-> 1, Column |-> 0]}
Ranges == {[Start |-> a, End |-> b] : a \in Positions, b \in Positions}
InsertTexts == {<<>>, <<97>>, <<LF>>}
InitTexts == {<<>>, <<97, LF>>, <<233, LF>>}
SearchTexts == {<<>>, <<97>>, <<40>>}
EOLTypes == {EOLUnix, EOLMac, "EOLType(3)"}

\* the state after construction, but for the buffer and what depends on its text
InitFields ==
    /\ undoStack = NewUndoStack
    /\ languageID = "plaintext"
    /\ filePath = ""
    /\ modified = FALSE
    /\ mutex = [writer |-> FALSE, readers |-> 0]
    /\ disk = [p \in Paths |-> IF p = "g.md" THEN <<97, LF>> ELSE NoFile]
    /\ call = [op |-> "NewTextBuffer", calls |-> 0, err |-> "nil", events |-> <<>>, writes |-> {},
               blocked |-> FALSE, crashed |-> FALSE, pushed |-> FALSE, run |-> "-",
               preText |-> <<>>,
               addressable |-> [start |-> TRUE, end |-> TRUE]]
    /\ stack = NewUndoStack
    /\ stackLog = [pushes |-> 0, undos |-> 0]
    /\ threads = [t \in Threads |-> Idle]
    /\ dispatch = [listeners |-> <<>>, effects |-> 0, goroutines |-> {}, delivered |-> <<>>,
                   owed |-> {}, removed |-> {}]
    /\ pool = NewMemoryPool(poolMaxSize)

\* the same, the text saved last not being followed
InitRest == InitFields /\ savedText = <<>>

\* the state after NewTextBufferWithText(text), for a text of texts
InitWith(texts) ==
    /\ \E text \in texts :
          /\ gapBuffer = NewGapBufferWithText(text)
          /\ eolType = detectEOLType(text)
          /\ history = [phase |-> "edit", texts |-> <<text>>, k |-> 0]
    /\ InitRest

Init == InitWith(InitTexts)

(***************************************************************************)
(* Actions: one per public operation.                                      *)
(***************************************************************************)
DoInsert ==
    \E position \in Positions, text \in InsertTexts :
        Complete("Insert", Insert(Self, position, text), position, position)

DoDelete ==
    \E r \in Ranges : Complete("Delete", Delete(Self, r), r.Start, r.End)

DoReplace ==
    \E r \in Ranges, text \in InsertTexts :
        Complete("Replace", Replace(Self, r, text), r.Start, r.End)

DoUndo == Complete("Undo", Undo(Self), NoPosition, NoPosition)

DoRedo == Complete("Redo", Redo(Self), NoPosition, NoPosition)

DoClear == Complete("Clear", Clear(Self), NoPosition, NoPosition)

DoSetText ==
    \E text \in InitTexts : Complete("SetText", SetText(Self, text), NoPosition, NoPosition)

DoSetEOLType ==
    \E t \in EOLTypes : Complete("SetEOLType", SetEOLType(Self, t), NoPosition, NoPosition)

DoFindNext ==
    \E searchText \in SearchTexts, position \in Positions,
       caseSensitive \in BOOLEAN, wholeWord \in BOOLEAN, regex \in BOOLEAN :
        Complete("FindNext",
                 FindNext(Self, searchText, position, caseSensitive, wholeWord, regex),
                 NoPosition, NoPosition)

DoFindPrevious ==
    \E searchText \in SearchTexts, position \in Positions,
       caseSensitive \in BOOLEAN, wholeWord \in BOOLEAN, regex \in BOOLEAN :
        Complete("FindPrevious",
                 FindPrevious(Self, searchText, position, caseSensitive, wholeWord, regex),
                 NoPosition, NoPosition)

DoReplaceAll ==
    \E searchText \in SearchTexts, replaceText \in {<<>>, <<LF>>},
       caseSensitive \in BOOLEAN, wholeWord \in BOOLEAN, regex \in BOOLEAN :
        Complete("ReplaceAll",
                 ReplaceAll(Self, searchText, replaceText, caseSensitive, wholeWord, regex),
                 NoPosition, NoPosition)

DoGetText == Complete("GetText", GetText(Self), NoPosition, NoPosition)

DoGetLineCount == Complete("GetLineCount", GetLineCount(Self), NoPosition, NoPosition)

DoGetOffsetAt ==
    \E position \in Positions :
        Complete("GetOffsetAt", GetOffsetAt(Self, position), NoPosition, NoPosition)

DoSetLanguageID ==
    \E id \in {"plaintext", "go"} :
        Complete("SetLanguageID", SetLanguageID(Self, id), NoPosition, NoPosition)

DoSetFilePath ==
    \E path \in {"", "f.txt"} :
        Complete("SetFilePath", SetFilePath(Self, path), NoPosition, NoPosition)

DoSetModified ==
    \E m \in BOOLEAN :
        Complete("SetModified", SetModified(Self, m), NoPosition, NoPosition)

DoSaveToFile ==
    \E path \in {""} \cup Paths :
        Complete("SaveToFile", SaveToFile(Self, path), NoPosition, NoPosition)

DoLoadFromFile ==
    \E path \in Paths :
        Complete("LoadFromFile", LoadFromFile(Self, path), NoPosition, NoPosition)

\* the editing operations and the undo log, MaxCalls calls of them
More == call.calls < MaxCalls

Next ==
    \/ More /\ DoInsert
    \/ More /\ DoDelete
    \/ More /\ DoReplace
    \/ More /\ DoUndo
    \/ More /\ DoRedo
    \/ More /\ DoClear
    \/ More /\ DoSetText
    \/ More /\ DoSetEOLType
    \/ More /\ DoReplaceAll

Spec == Init /\ [][Next]_vars

\* every public operation, MaxAnyCalls calls of them
AnyMore == call.calls < MaxAnyCalls

NextCalls ==
    \/ AnyMore /\ DoInsert
    \/ AnyMore /\ DoDelete
    \/ AnyMore /\ DoReplace
    \/ AnyMore /\ DoUndo
    \/ AnyMore /\ DoRedo
    \/ AnyMore /\ DoClear
    \/ AnyMore /\ DoSetText
    \/ AnyMore /\ DoSetEOLType
    \/ AnyMore /\ DoReplaceAll
    \/ AnyMore /\ DoFindNext
    \/ AnyMore /\ DoFindPrevious
    \/ AnyMore /\ DoGetText
    \/ AnyMore /\ DoGetLineCount
    \/ AnyMore /\ DoGetOffsetAt
    \/ AnyMore /\ DoSetLanguageID
    \/ AnyMore /\ DoSetFilePath
    \/ AnyMore /\ DoSetModified
    \/ AnyMore /\ DoSaveToFile
    \/ AnyMore /\ DoLoadFromFile

SpecCalls == Init /\ [][NextCalls]_vars

(***************************************************************************)
(* The undo log alone: Push, Undo, Redo and Clear on an UndoStack, with    *)
(* the records numbered in the order they are pushed.                      *)
(***************************************************************************)
buffer == <<gapBuffer, undoStack, eolType, languageID, filePath, modified, mutex, disk,
            call, history, threads, dispatch, pool, savedText>>

InitStack == Init /\ gapBuffer.buf = <<>>

StackPush ==
    /\ stackLog.pushes < MaxPushes
    /\ stack' = usPush(stack, [Type |-> OperationInsert,
                               Position |-> [Line |-> 0, Column |-> stackLog.pushes + 1],
                               Text |-> <<97>>, OldText |-> <<>>])
    /\ stackLog' = [stackLog EXCEPT !.pushes = @ + 1]
    /\ UNCHANGED buffer

StackUndo ==
    /\ stackLog.undos < MaxUndos
    /\ usCanUndo(stack)
    /\ stack' = usUndo(stack)
    /\ stackLog' = [stackLog EXCEPT !.undos = @ + 1]
    /\ UNCHANGED buffer

StackRedo ==
    /\ usCanRedo(stack)
    /\ stack' = usRedo(stack)
    /\ UNCHANGED <<stackLog, buffer>>

StackClear ==
    /\ stack' = usClear(stack)
    /\ stackLog' = [pushes |-> 0, undos |-> 0]
    /\ UNCHANGED buffer

NextStack ==
    \/ StackPush
    \/ StackUndo
    \/ StackRedo
    \/ StackClear

SpecStack == InitStack /\ [][NextStack]_vars

(***************************************************************************)
(* Concurrent callers.  Each goroutine of Threads calls GetLineCount,      *)
(* GetLength, Insert, Delete, Replace, Undo or Redo.  A call that takes    *)
(* the exclusive lock runs alone from Lock to Unlock and is one step.  A   *)
(* call that takes the shared lock runs together with the other readers,   *)
(* and GapBuffer.GetLineCount and updateLineStartCache write the caches    *)
(* under that shared lock: each read or write of a cache field is a step   *)
(* of its own (an append to the slice is taken as one write), and the      *)
(* outcomes of the unsynchronised accesses are the interleavings of these  *)
(* steps.                                                                  *)
(***************************************************************************)
\* number of calls the goroutines make between them
MaxThreadCalls == 3

\* the calls made so far
ThreadCalls == threads["t1"].calls + threads["t2"].calls

\* what a call of op returns in a sequential execution that reaches text
SequentialResult(op, text) ==
    IF op = "GetLineCount" THEN gbGetLineCount(NewGapBufferWithText(text))
    ELSE gbGetLength(NewGapBufferWithText(text))

\* the program state outside the buffer's text, its log and its lock
others == <<eolType, languageID, filePath, disk, call, history, stack, stackLog, dispatch, pool, savedText>>

\* goroutine t moves to pc, everything but the gap buffer as it was
Step(t, pc) ==
    /\ threads' = [threads EXCEPT ![t].pc = pc]
    /\ UNCHANGED <<undoStack, modified, mutex, others>>

\* tb.mutex.RLock() on entry of the reader op, from a goroutine outside a call
ThreadRLock(t, op) ==
    /\ threads[t].pc = "idle"
    /\ ThreadCalls < MaxThreadCalls
    /\ ~mutex.writer
    /\ mutex' = [mutex EXCEPT !.readers = @ + 1]
    /\ threads' = [threads EXCEPT ![t] =
                     [pc |-> op, op |-> op, rest |-> <<>>, result |-> 0,
                      legal |-> {SequentialResult(op, gapBuffer.buf)},
                      calls |-> threads[t].calls + 1]]
    /\ UNCHANGED <<gapBuffer, undoStack, modified, others>>

\* TextBuffer.GetLineCount: RLock
ThreadGetLineCount == \E t \in Threads : ThreadRLock(t, "GetLineCount")

\* GapBuffer.GetLineCount: if gb.lineCountCacheValid { return gb.cachedLineCount }
ThreadLineCountCached ==
    \E t \in Threads :
        /\ threads[t].pc = "GetLineCount"
        /\ threads' = [threads EXCEPT ![t] =
                         IF gapBuffer.lineCountCacheValid
                         THEN [@ EXCEPT !.pc = "RUnlock", !.result = gapBuffer.cachedLineCount]
                         ELSE [@ EXCEPT !.pc = "updateLineStartCache"]]
        /\ UNCHANGED <<gapBuffer, undoStack, modified, mutex, others>>

\* updateLineStartCache: if gb.lineStartCacheValid { return }
ThreadLineStartsCached ==
    \E t \in Threads :
        /\ threads[t].pc = "updateLineStartCache"
        /\ Step(t, IF gapBuffer.lineStartCacheValid THEN "count" ELSE "truncate")
        /\ UNCHANGED gapBuffer

\* updateLineStartCache: gb.lineStartCache = gb.lineStartCache[:0]
ThreadTruncate ==
    \E t \in Threads :
        /\ threads[t].pc = "truncate"
        /\ gapBuffer' = [gapBuffer EXCEPT !.lineStartCache = <<>>]
        /\ Step(t, "first")

\* updateLineStartCache: gb.lineStartCache = append(gb.lineStartCache, 0), and
\* the test of gb.size
ThreadFirst ==
    \E t \in Threads :
        /\ threads[t].pc = "first"
        /\ gapBuffer' = [gapBuffer EXCEPT !.lineStartCache = Append(@, 0)]
        /\ Step(t, IF gbGetLength(gapBuffer) = 0 THEN "validate" ELSE "GetText")

\* updateLineStartCache: text := gb.GetText(); rest holds the line starts the
\* scan of text is still to append
ThreadGetText ==
    \E t \in Threads :
        /\ threads[t].pc = "GetText"
        /\ gapBuffer' = gbAfterGetText(gapBuffer)
        /\ threads' = [threads EXCEPT ![t].pc = "scan",
                                      ![t].rest = LineStartsFrom(gbGetText(gapBuffer), 0)]
        /\ UNCHANGED <<undoStack, modified, mutex, others>>

\* updateLineStartCache: gb.lineStartCache = append(gb.lineStartCache, i+1)
ThreadAppend ==
    \E t \in Threads :
        /\ threads[t].pc = "scan"
        /\ threads[t].rest # <<>>
        /\ gapBuffer' = [gapBuffer EXCEPT !.lineStartCache = Append(@, Head(threads[t].rest))]
        /\ threads' = [threads EXCEPT ![t].rest = Tail(@)]
        /\ UNCHANGED <<undoStack, modified, mutex, others>>

\* updateLineStartCache: gb.lineStartCacheValid = true
ThreadValidate ==
    \E t \in Threads :
        /\ \/ threads[t].pc = "validate"
           \/ threads[t].pc = "scan" /\ threads[t].rest = <<>>
        /\ gapBuffer' = [gapBuffer EXCEPT !.lineStartCacheValid = TRUE]
        /\ Step(t, "count")

\* GapBuffer.GetLineCount: count := len(gb.lineStartCache), stored in the
\* line-count cache and returned
ThreadCount ==
    \E t \in Threads :
        /\ threads[t].pc = "count"
        /\ gapBuffer' = [gapBuffer EXCEPT !.cachedLineCount = Len(gapBuffer.lineStartCache),
                                          !.lineCountCacheValid = TRUE]
        /\ threads' = [threads EXCEPT ![t].pc = "RUnlock",
                                      ![t].result = Len(gapBuffer.lineStartCache)]
        /\ UNCHANGED <<undoStack, modified, mutex, others>>

\* TextBuffer.GetLength: RLock
ThreadGetLength == \E t \in Threads : ThreadRLock(t, "GetLength")

\* GapBuffer.GetLength: return gb.size
ThreadSize ==
    \E t \in Threads :
        /\ threads[t].pc = "GetLength"
        /\ threads' = [threads EXCEPT ![t].pc = "RUnlock",
                                      ![t].result = gbGetLength(gapBuffer)]
        /\ UNCHANGED <<gapBuffer, undoStack, modified, mutex, others>>

\* the deferred tb.mutex.RUnlock(), and the return
ThreadRUnlock ==
    \E t \in Threads :
        /\ threads[t].pc = "RUnlock"
        /\ mutex' = [mutex EXCEPT !.readers = @ - 1]
        /\ threads' = [threads EXCEPT ![t].pc = "idle"]
        /\ UNCHANGED <<gapBuffer, undoStack, modified, others>>

\* a call that takes the exclusive lock, by goroutine t, from Lock to its
\* return in s: it starts when no goroutine holds the lock
ThreadEdit(t, op, s) ==
    /\ threads[t].pc = "idle"
    /\ ThreadCalls < MaxThreadCalls
    /\ ~mutex.writer /\ mutex.readers = 0
    /\ Len(s.gapBuffer.buf) <= MaxLen
    /\ Len(s.undoStack.undoStack) + Len(s.undoStack.redoStack) <= MaxEdits
    /\ gapBuffer' = s.gapBuffer
    /\ undoStack' = s.undoStack
    /\ modified' = s.modified
    /\ threads' = [threads EXCEPT ![t] = [Idle EXCEPT !.op = op,
                                                     !.calls = threads[t].calls + 1]]
    /\ UNCHANGED <<mutex, others>>

ThreadInsert ==
    \E t \in Threads, position \in Positions, text \in InsertTexts :
        ThreadEdit(t, "Insert", Insert(Self, position, text))

ThreadDelete ==
    \E t \in Threads, r \in Ranges : ThreadEdit(t, "Delete", Delete(Self, r))

ThreadReplace ==
    \E t \in Threads, r \in Ranges, text \in InsertTexts :
        ThreadEdit(t, "Replace", Replace(Self, r, text))

ThreadUndo == \E t \in Threads : ThreadEdit(t, "Undo", Undo(Self))

ThreadRedo == \E t \in Threads : ThreadEdit(t, "Redo", Redo(Self))

NextThreads ==
    \/ ThreadGetLineCount
    \/ ThreadLineCountCached
    \/ ThreadLineStartsCached
    \/ ThreadTruncate
    \/ ThreadFirst
    \/ ThreadGetText
    \/ ThreadAppend
    \/ ThreadValidate
    \/ ThreadCount
    \/ ThreadGetLength
    \/ ThreadSize
    \/ ThreadRUnlock
    \/ ThreadInsert
    \/ ThreadDelete
    \/ ThreadReplace
    \/ ThreadUndo
    \/ ThreadRedo

SpecThreads == Init /\ [][NextThreads]_vars

(***************************************************************************)
(* Event delivery.  triggerEvent copies the listeners of the event's type  *)
(* under the shared lock and starts a goroutine that calls them one after  *)
(* the other; nothing orders the goroutines of two events.  dispatch holds *)
(* the table of the TextChanged listeners (a listener is named by a        *)
(* number), the number of calls made (a call's number is its place in the  *)
(* order the calls took effect), the goroutines that still have listeners  *)
(* to call, the calls of listeners made so far, owed: the notifications    *)
(* the calls have to produce, one for every listener registered when a     *)
(* successful edit ran, and removed: the listeners RemoveEventListener was *)
(* called with and that were not added again, each with the number of      *)
(* calls made before its removal and the listeners registered beside it.   *)
(***************************************************************************)
MaxListeners == 1
MaxEffects == 3

\* AddEventListener(eventType, listener): the table of eventType afterwards
AddEventListener(eventListeners, listener) == Append(eventListeners, listener)

\* RemoveEventListener(eventType, listener): the table of eventType
\* afterwards.  The loop's test &l == &listener compares the address of the
\* loop variable l with the address of the parameter listener
RemoveEventListener(eventListeners, listener) ==
    IF \E i \in DOMAIN eventListeners : "&l" = "&listener"
    THEN [j \in 1..(Len(eventListeners) - 1) |->
             IF j < CHOOSE i \in DOMAIN eventListeners :
                        /\ "&l" = "&listener"
                        /\ \A k \in 1..(i - 1) : "&l" # "&listener"
             THEN eventListeners[j] ELSE eventListeners[j + 1]]
    ELSE eventListeners

\* the listeners of a table
Registered(eventListeners) == {eventListeners[i] : i \in DOMAIN eventListeners}

\* the indices of the TextChanged events among events
TextChangedIn(events) == {j \in DOMAIN events : events[j].Type = EventTextChanged}

\* the call op ran from Self to s; edit: it is a successful edit, not a no-op
Emit(op, s, edit) ==
    /\ dispatch.effects < MaxEffects
    /\ Len(s.gapBuffer.buf) <= MaxLen
    /\ Len(s.undoStack.undoStack) + Len(s.undoStack.redoStack) <= MaxEdits
    /\ gapBuffer' = s.gapBuffer
    /\ undoStack' = s.undoStack
    /\ modified' = s.modified
    /\ dispatch' =
         [dispatch EXCEPT
            !.effects = @ + 1,
            !.goroutines = @ \cup
                {[id |-> dispatch.effects + 1, event |-> j, op |-> op,
                  listeners |-> dispatch.listeners, next |-> 1] :
                    j \in IF Len(dispatch.listeners) > 0 THEN TextChangedIn(s.events) ELSE {}},
            !.owed = @ \cup
                {[id |-> dispatch.effects + 1, listener |-> l] :
                    l \in IF edit THEN Registered(dispatch.listeners) ELSE {}}]
    /\ UNCHANGED <<eolType, languageID, filePath, mutex, disk, call, history,
                   stack, stackLog, threads, pool, savedText>>

\* AddEventListener(EventTextChanged, listener) of a new listener
EventAddListener ==
    /\ Len(dispatch.listeners) < MaxListeners
    /\ dispatch' = [dispatch EXCEPT !.listeners = AddEventListener(@, Len(@) + 1)]
    /\ UNCHANGED <<gapBuffer, undoStack, modified, eolType, languageID, filePath, mutex,
                   disk, call, history, stack, stackLog, threads, pool, savedText>>

EventInsert ==
    \E position \in Positions, text \in InsertTexts :
        Emit("Insert", Insert(Self, position, text), text # <<>>)

EventDelete ==
    \E r \in Ranges : Emit("Delete", Delete(Self, r), Delete(Self, r).err = "nil")

\* a Replace of an empty range by the empty string is the no-op
EventReplace ==
    \E r \in Ranges, text \in InsertTexts :
        Emit("Replace", Replace(Self, r, text),
             /\ Replace(Self, r, text).err = "nil"
             /\ ~(/\ gbGetOffsetAt(gapBuffer, r.Start) = gbGetOffsetAt(gapBuffer, r.End)
                  /\ text = <<>>))

EventUndo == Emit("Undo", Undo(Self), Undo(Self).err = "nil")

EventRedo == Emit("Redo", Redo(Self), Redo(Self).err = "nil")

EventClear == Emit("Clear", Clear(Self), TRUE)

EventSetText == \E text \in InitTexts : Emit("SetText", SetText(Self, text), TRUE)

EventReplaceAll ==
    \E searchText \in SearchTexts, replaceText \in {<<>>, <<LF>>} :
        Emit("ReplaceAll", ReplaceAll(Self, searchText, replaceText, TRUE, FALSE, FALSE),
             ReplaceAll(Self, searchText, replaceText, TRUE, FALSE, FALSE).err = "nil")

\* a goroutine started by triggerEvent calls its next listener, and ends
\* after the last one
EventDeliver ==
    \E g \in dispatch.goroutines :
        /\ dispatch' =
             [dispatch EXCEPT
                !.delivered = Append(@, [id |-> g.id, listener |-> g.listeners[g.next],
                                         op |-> g.op]),
                !.goroutines = (@ \ {g}) \cup
                    (IF g.next < Len(g.listeners) THEN {[g EXCEPT !.next = @ + 1]} ELSE {})]
        /\ UNCHANGED <<gapBuffer, undoStack, modified, eolType, languageID, filePath,
                       mutex, disk, call, history, stack, stackLog, threads, pool, savedText>>

NextEvents ==
    \/ EventAddListener
    \/ EventInsert
    \/ EventDelete
    \/ EventReplace
    \/ EventUndo
    \/ EventRedo
    \/ EventClear
    \/ EventSetText
    \/ EventReplaceAll
    \/ EventDeliver

SpecEvents == Init /\ [][NextEvents]_vars

(***************************************************************************)
(* The queries on lines, offsets and positions, on every text of at most   *)
(* MaxLen runes, before and after edits.                                   *)
(***************************************************************************)
MaxQueries == 3

\* the line indices and offsets asked for: one below and one above the range
LineIndices == -1..(MaxLen + 1)
Offsets == -1..(MaxLen + 1)
\* the positions asked for, addressable or not
QueryPositions == {[Line |-> l, Column |-> c] : l \in -1..(MaxLen + 1), c \in -1..(MaxLen + 1)}

InitQueries == InitWith(StringsOver(Alphabet, 0, MaxLen))

DoGetLineContent ==
    \E lineIndex \in LineIndices :
        Complete("GetLineContent", GetLineContent(Self, lineIndex), NoPosition, NoPosition)

DoGetLines == Complete("GetLines", GetLines(Self), NoPosition, NoPosition)

DoGetPositionAt ==
    \E offset \in Offsets :
        Complete("GetPositionAt", GetPositionAt(Self, offset), NoPosition, NoPosition)

QueryMore == call.calls < MaxQueries

NextQueries ==
    \/ QueryMore /\ DoGetLineCount
    \/ QueryMore /\ DoGetLineContent
    \/ QueryMore /\ DoGetLines
    \/ QueryMore /\ DoGetPositionAt
    \/ QueryMore /\ DoGetOffsetAt
    \/ QueryMore /\ DoInsert
    \/ QueryMore /\ DoDelete
    \/ QueryMore /\ DoUndo

SpecQueries == InitQueries /\ [][NextQueries]_vars

(***************************************************************************)
(* Claims.                                                                 *)
(***************************************************************************)
\* C1: edit-then-undo is the identity on the text: an Undo() that follows a
\* successful Insert of a non-empty string at an addressable position, or a
\* successful Delete of a range with addressable start, leaves GetText() equal
\* to its value before that Insert or Delete.
C1_EditThenUndoIsIdentity ==
    [][(/\ call.op \in {"Insert", "Delete"}
        /\ call.err = "nil" /\ call.pushed
        /\ call.addressable.start
        /\ call'.op = "Undo")
       => Text' = call.preText]_vars

\* C2: undo/redo symmetry: a Redo() that immediately follows a successful
\* Undo() succeeds too, and GetText() is then the text that was present
\* immediately before that Undo().
C2_UndoRedoSymmetry ==
    [][(call.op = "Undo" /\ call.err = "nil" /\ call'.op = "Redo")
       => (call'.err = "nil" /\ Text' = call.preText)]_vars

\* C3: undo is last-in-first-out over the whole history: after n successful
\* Insert / Delete / Replace edits at addressable positions that take the
\* text from T0 to Tn, the k-th of n consecutive Undo() calls succeeds and
\* leaves text T(n-k), and the n Redo() calls that follow succeed and end at Tn.
C3_UndoIsLifo ==
    LET n == Len(history.texts) - 1
    IN /\ history.phase = "undo"
            => (call.err = "nil" /\ Text = history.texts[n - history.k + 1])
       /\ history.phase = "redo"
            => (call.err = "nil" /\ (history.k = n => Text = history.texts[n + 1]))

C5_LogIsBounded ==
    /\ [](Len(stack.undoStack) <= maxStackSize /\ Len(stack.redoStack) <= maxStackSize)
    /\ [][stackLog'.pushes = stackLog.pushes + 1
          => LET pushed == stack'.undoStack[Len(stack'.undoStack)]
             IN /\ pushed.Position.Column = stackLog'.pushes
                /\ stack'.undoStack =
                     IF Len(stack.undoStack) = maxStackSize
                     THEN Append(Tail(stack.undoStack), pushed)
                     ELSE Append(stack.undoStack, pushed)]_vars

\* a Push has evicted the oldest record of a full past that an Undo and a
\* Redo had emptied and refilled by one
C5_Evicted ==
    /\ Len(stack.undoStack) = maxStackSize
    /\ stack.undoStack[1].Position.Column > 1
    /\ stackLog.undos > 0

\* C6: recording a new edit discards the redo history: after any call that
\* pushes an undo record the future sequence is empty, so a Redo() that
\* follows such a call (as in edit; Undo(); edit'; Redo()) fails with
\* no-history and changes neither the text nor the undo log.
C6_EditDiscardsRedo ==
    /\ [](call.pushed => undoStack.redoStack = <<>>)
    /\ [][(call.pushed /\ call'.op = "Redo")
          => (/\ call'.err = "no operation to redo"
              /\ Text' = Text
              /\ undoStack' = undoStack)]_vars

\* the Redo() of edit; Undo(); edit'; Redo() has failed
C6_RedoAfterNewEdit ==
    /\ call.op = "Redo" /\ call.run = "edit;Undo;edit;Redo"
    /\ call.err = "no operation to redo"

\* C7: failed operations change nothing: whenever a public operation returns
\* an error, the text, the undo log (past and future), the EOL tag, the
\* modified flag and the file path are as before the call, no event is
\* emitted, and the lock is released.
C7_FailedCallsChangeNothing ==
    [][(call'.err # "nil" /\ ~call'.crashed)
       => (/\ Text' = Text
           /\ undoStack' = undoStack
           /\ eolType' = eolType
           /\ modified' = modified
           /\ filePath' = filePath
           /\ call'.events = <<>>
           /\ mutex' = [writer |-> FALSE, readers |-> 0])]_vars

\* a ReplaceAll with a pattern that does not compile has failed on a modified
\* buffer with a record to undo
C7_FailedReplaceAll ==
    /\ call.op = "ReplaceAll" /\ call.err = "invalid regex pattern"
    /\ modified /\ usCanUndo(undoStack) /\ Text # <<>>

\* C8: the buffer lock is never held by the emitting call when an event is
\* dispatched: every triggerEvent of every operation is entered with the
\* mutex free of the caller's own hold, and none blocks on it.
C8_NoLockHeldAtDispatch ==
    /\ ~call.blocked
    /\ \A i \in 1..Len(call.events) : call.events[i].held = "none"

\* C9: LoadFromFile(path) on an existing file always completes, even when
\* called by a single thread with no other activity: it returns success
\* having installed the file's text, cleared the undo log, set modified to
\* false and emitted ModifiedChanged and TextChanged(SetText); it never
\* blocks on the buffer's own lock.
C9_LoadFromFileCompletes ==
    [][(call'.op = "LoadFromFile" /\ disk[filePath'] # NoFile /\ call'.err = "nil")
       => (/\ ~call'.blocked
           /\ undoStack' = NewUndoStack
           /\ modified' = FALSE
           /\ \E i \in 1..Len(call'.events) :
                 call'.events[i].Type = EventModifiedChanged
           /\ \E i \in 1..Len(call'.events) :
                 /\ call'.events[i].Type = EventTextChanged
                 /\ call'.events[i].OperationType = OperationSetText)]_vars

\* C10: single-writer discipline: the state the buffer lock guards (gap
\* buffer with its caches, undo log, EOL tag, language id, file path, modified
\* flag) is written only while the exclusive lock is held; calls that hold
\* only the shared lock write none of it.
C10_WritesHoldTheExclusiveLock ==
    \A w \in call.writes : w.held = "exclusive"

\* C11: operations on one buffer are linearisable.  The calls that take the
\* exclusive lock run one at a time, so a concurrent execution has the results
\* of a sequential one exactly when every reader call does: a GetLineCount or
\* GetLength call that has returned gave the result the sequential code gives
\* on the text the buffer held while the call had the shared lock.
C11_Linearisable ==
    \A t \in Threads :
        threads[t].pc = "idle" /\ threads[t].op \in {"GetLineCount", "GetLength"}
            => threads[t].result \in threads[t].legal

\* C12: per-buffer event order is preserved: when A took effect on the buffer
\* before B, every TextChanged listener receives A's event before B's, so the
\* calls made to one listener come in the order of the operations' effects.
C12_EventOrderPreserved ==
    \A i \in DOMAIN dispatch.delivered, j \in DOMAIN dispatch.delivered :
        /\ i < j
        /\ dispatch.delivered[i].listener = dispatch.delivered[j].listener
        => dispatch.delivered[i].id <= dispatch.delivered[j].id

\* C13: exactly one notification per edit: every call made to a listener is
\* owed (it is for a successful edit that was not a no-op, and the listener
\* was registered when it ran), no owed notification is made twice, and every
\* owed notification has been made or is still to be made by a goroutine.
C13_ExactlyOneNotification ==
    /\ \A i \in DOMAIN dispatch.delivered :
          /\ [id |-> dispatch.delivered[i].id,
              listener |-> dispatch.delivered[i].listener] \in dispatch.owed
          /\ \A j \in DOMAIN dispatch.delivered :
                /\ dispatch.delivered[i].id = dispatch.delivered[j].id
                /\ dispatch.delivered[i].listener = dispatch.delivered[j].listener
                => i = j
    /\ \A o \in dispatch.owed :
          \/ \E i \in DOMAIN dispatch.delivered :
                /\ dispatch.delivered[i].id = o.id
                /\ dispatch.delivered[i].listener = o.listener
          \/ \E g \in dispatch.goroutines : g.id = o.id /\ g.next <= o.listener

Terminated(text) == text # <<>> /\ text[Len(text)] = LF

\* C15: a trailing newline does not start a new line: for a text made of
\* k >= 1 lines each terminated by '\n', GetLineCount() is k and GetLines()
\* returns exactly k entries.
C15_TrailingNewlineStartsNoLine ==
    Terminated(Text) =>
        /\ gbGetLineCount(gapBuffer) = TrueLineCount(Text) - 1
        /\ Len(gbGetLines(gapBuffer)) = TrueLineCount(Text) - 1

\* the concatenation of the strings of seqs, in order
RECURSIVE Flatten(_)
Flatten(seqs) == IF seqs = <<>> THEN <<>> ELSE Head(seqs) \o Flatten(Tail(seqs))

\* the offset at which line l of text starts
RECURSIVE TrueLineStart(_, _)
TrueLineStart(text, l) ==
    IF l = 0 THEN 0 ELSE TrueLineStart(text, l - 1) + Len(TrueLine(text, l - 1)) + 1

\* C16: in every reachable state the lines partition the text: GetLines()
\* has GetLineCount() entries, entry i is GetLineContent(i) and is line i with
\* its terminating '\n' when it has one, the concatenation of GetLines() is
\* GetText(), and GetLineContent(i) is empty for i < 0 and i >= GetLineCount().
C16_LinesPartitionTheText ==
    /\ Len(gbGetLines(gapBuffer)) = gbGetLineCount(gapBuffer)
    /\ \A i \in 0..(gbGetLineCount(gapBuffer) - 1) :
          /\ gbGetLines(gapBuffer)[i + 1] = gbGetLineContent(gapBuffer, i)
          /\ gbGetLines(gapBuffer)[i + 1] =
                TrueLine(Text, i) \o (IF i < TrueLineCount(Text) - 1 THEN <<LF>> ELSE <<>>)
    /\ Flatten(gbGetLines(gapBuffer)) = Text
    /\ \A i \in LineIndices :
          i < 0 \/ i >= gbGetLineCount(gapBuffer) => gbGetLineContent(gapBuffer, i) = <<>>

\* C16 witness: GetLines was called on an edited text of several lines with a
\* rune of two bytes in it
C16_LinesOfEditedText ==
    /\ call.op = "GetLines"
    /\ usCanUndo(undoStack)
    /\ TrueLineCount(Text) >= 2
    /\ \E i \in DOMAIN Text : Text[i] = 233

\* C17: offset/position round trip: GetOffsetAt(GetPositionAt(o)) = o for
\* every offset o in 0..N, and GetPositionAt(GetOffsetAt(p)) = p for every
\* addressable position p.
C17_OffsetPositionRoundTrip ==
    /\ \A o \in 0..gbGetLength(gapBuffer) :
          gbGetOffsetAt(gapBuffer, gbGetPositionAt(gapBuffer, o)) = o
    /\ \A p \in QueryPositions :
          Addressable(Text, p) =>
              gbGetPositionAt(gapBuffer, gbGetOffsetAt(gapBuffer, p)) = p

\* C18: offset conversion clamps: GetOffsetAt(p) is in 0..N for every p, is
\* N for a line >= the line count, and is the end of line p.Line (before its
\* newline) for a column beyond that line's length; GetPositionAt(o) is (0,0)
\* for o < 0 and the position of offset N for o > N.
C18_OffsetConversionClamps ==
    /\ \A p \in QueryPositions :
          /\ gbGetOffsetAt(gapBuffer, p) \in 0..gbGetLength(gapBuffer)
          /\ p.Line >= TrueLineCount(Text) /\ p.Column >= 0 =>
                gbGetOffsetAt(gapBuffer, p) = gbGetLength(gapBuffer)
          /\ /\ p.Line \in 0..(TrueLineCount(Text) - 1)
             /\ p.Column > Len(TrueLine(Text, p.Line))
             => gbGetOffsetAt(gapBuffer, p) =
                    TrueLineStart(Text, p.Line) + Len(TrueLine(Text, p.Line))
    /\ \A o \in Offsets :
          /\ o < 0 => gbGetPositionAt(gapBuffer, o) = [Line |-> 0, Column |-> 0]
          /\ o > gbGetLength(gapBuffer) =>
                gbGetPositionAt(gapBuffer, o)
                    = gbGetPositionAt(gapBuffer, gbGetLength(gapBuffer))

\* C19: Replace(r, s) with a range whose start and end map to the same offset
\* behaves as Insert(r.start, s): the resulting text is the same, and an empty
\* s is a successful no-op that pushes no undo record, leaves the redo
\* sequence and the modified flag untouched and emits no event.
C19_ReplaceOfEmptyRangeIsInsert ==
    \A r \in Ranges, text \in InsertTexts :
        gbGetOffsetAt(gapBuffer, r.Start) = gbGetOffsetAt(gapBuffer, r.End) =>
            /\ gbGetText(Replace(Self, r, text).gapBuffer)
                  = gbGetText(Insert(Self, r.Start, text).gapBuffer)
            /\ text = <<>> =>
                  /\ Replace(Self, r, text).err = "nil"
                  /\ Replace(Self, r, text).undoStack = undoStack
                  /\ Replace(Self, r, text).modified = modified
                  /\ Replace(Self, r, text).events = <<>>

\* needle matches text at offset o under the flags: the runes at o are those
\* of needle (up to case when not caseSensitive), and with wholeWord no word
\* character stands next to them
Accepted(text, o, needle, caseSensitive, wholeWord, regex) ==
    /\ needle # <<>>
    /\ o + Len(needle) <= Len(text)
    /\ \A i \in 1..Len(needle) :
          IF caseSensitive THEN text[o + i] = needle[i]
          ELSE RuneToLower(text[o + i]) = RuneToLower(needle[i])
    /\ wholeWord =>
          /\ o = 0 \/ ~(IF regex THEN IsAsciiWord(text[o]) ELSE isWordChar(text[o]))
          /\ \/ o + Len(needle) = Len(text)
             \/ ~(IF regex THEN IsAsciiWord(text[o + Len(needle) + 1])
                  ELSE isWordChar(text[o + Len(needle) + 1]))

\* the call f of FindNext(needle, p, ...) with from = offset_at(p), on a text
\* whose accepted matches start at the offsets of accepted, is correct
SearchCorrect(f, from, accepted, needle) ==
    /\ f.err = "nil" /\ ~f.crashed =>
          /\ gbGetOffsetAt(gapBuffer, f.result.Start) \in accepted
          /\ gbGetOffsetAt(gapBuffer, f.result.End)
                = gbGetOffsetAt(gapBuffer, f.result.Start) + Len(needle)
          /\ \A o \in accepted :
                ~(from <= o /\ o < gbGetOffsetAt(gapBuffer, f.result.Start))
    /\ accepted # {} /\ (\A o \in accepted : o < from) =>
          /\ f.err = "nil" /\ ~f.crashed
          /\ \A o \in accepted : gbGetOffsetAt(gapBuffer, f.result.Start) <= o

\* C20: search correctness: when FindNext(n, p, cs, ww, rx) returns range m,
\* the text in m matches n under the flags and no accepted match starts in
\* [offset_at(p), offset_at(m.start)); and when no accepted match exists at or
\* after p but one exists before p, FindNext returns the first accepted match
\* of the whole text.
C20_SearchCorrectness ==
    \A n \in SearchTexts, p \in Positions,
       cs \in BOOLEAN, ww \in BOOLEAN, rx \in BOOLEAN :
        SearchCorrect(FindNext(Self, n, p, cs, ww, rx),
                      gbGetOffsetAt(gapBuffer, p),
                      {o \in 0..Len(Text) : Accepted(Text, o, n, cs, ww, rx)},
                      n)

\* C21: whole-word search always terminates with an answer: for any needle
\* and start position, FindNext and FindPrevious with wholeWord set return an
\* accepted match or the error "text not found"; they do not retry a rejected
\* occurrence for ever.
C21_WholeWordSearchTerminates ==
    \A n \in SearchTexts \ {<<>>}, p \in Positions, cs \in BOOLEAN, previous \in BOOLEAN :
        /\ ~FindLocked(RLock(Self), n, p, cs, TRUE, FALSE, previous).crashed
        /\ FindLocked(RLock(Self), n, p, cs, TRUE, FALSE, previous).err
              \in {"nil", "text not found"}

\* the number of non-overlapping matches of needle in text from offset o on,
\* taken from left to right: each accepted match is counted and skipped
RECURSIVE CountMatches(_, _, _, _, _, _)
CountMatches(text, o, needle, caseSensitive, wholeWord, regex) ==
    IF needle = <<>> \/ o + Len(needle) > Len(text) THEN 0
    ELSE IF Accepted(text, o, needle, caseSensitive, wholeWord, regex)
         THEN 1 + CountMatches(text, o + Len(needle), needle, caseSensitive, wholeWord, regex)
         ELSE CountMatches(text, o + 1, needle, caseSensitive, wholeWord, regex)

\* the call f of ReplaceAll on a text with the given number of matches is
\* correct
ReplaceAllCorrect(f, matches) ==
    IF matches = 0
    THEN /\ f.err = "text not found"
         /\ gbGetText(f.gapBuffer) = Text
         /\ f.undoStack = undoStack
         /\ f.modified = modified
    ELSE f.err = "nil" /\ f.result = matches

\* C22: ReplaceAll returns exactly the number of non-overlapping,
\* left-to-right matches of the needle under the flags, in plain,
\* case-insensitive, whole-word and regex modes, whatever the replacement is;
\* when that number is zero it fails with "text not found" and leaves text,
\* undo log and modified flag unchanged.
C22_ReplaceAllCountsMatches ==
    \A n \in SearchTexts, replaceText \in {<<>>, <<LF>>},
       cs \in BOOLEAN, ww \in BOOLEAN, rx \in BOOLEAN :
        n # <<>> /\ (rx => regexpCompiles(n)) =>
            ReplaceAllCorrect(ReplaceAll(Self, n, replaceText, cs, ww, rx),
                              CountMatches(Text, 0, n, cs, ww, rx))

MaxEOLCalls == 3

EOLTexts == StringsOver({97, LF, CR}, 0, MaxLen)

InitEOL == InitWith(EOLTexts)

DoSetTextEOL ==
    \E text \in EOLTexts : Complete("SetText", SetText(Self, text), NoPosition, NoPosition)

DoSetEOLTypeEOL ==
    \E t \in {EOLUnix, EOLWindows, EOLMac} :
        Complete("SetEOLType", SetEOLType(Self, t), NoPosition, NoPosition)

EOLMore == call.calls < MaxEOLCalls

NextEOL ==
    \/ EOLMore /\ DoSetTextEOL
    \/ EOLMore /\ DoSetEOLTypeEOL
    \/ EOLMore /\ DoSaveToFile
    \/ EOLMore /\ DoLoadFromFile
    \/ EOLMore /\ DoUndo

SpecEOL == InitEOL /\ [][NextEOL]_vars

\* every line terminator of text has the form of the tag t
TerminatorsHaveForm(text, t) ==
    CASE t = EOLUnix -> \A i \in 1..Len(text) : text[i] # CR
      [] t = EOLWindows ->
           \A i \in 1..Len(text) :
               /\ text[i] = LF => i > 1 /\ text[i - 1] = CR
               /\ text[i] = CR => i < Len(text) /\ text[i + 1] = LF
      [] t = EOLMac -> \A i \in 1..Len(text) : text[i] # LF

\* C24: after a successful SetEOLType(t) every line terminator of the text
\* has the form t, whatever the tag was before the call: no '\r' for Unix,
\* only "\r\n" pairs for Windows, no '\n' for Mac.
C24_SetEOLTypeNormalises ==
    call.op = "SetEOLType" /\ call.err = "nil" => TerminatorsHaveForm(Text, eolType)

\* C25: save/load round trip: from every state of the buffer, under every
\* EOL tag, SaveToFile(path) followed by LoadFromFile(path) succeeds and
\* leaves the text equal to the text before the save with its line
\* terminators normalised to '\n'.
C25_SaveLoadRoundTrip ==
    ~call.blocked /\ ~call.crashed =>
        \A path \in Paths, saved \in {SaveToFile(Self, p) : p \in Paths} :
            saved.filePath = path /\ saved.err = "nil" =>
                /\ ~LoadFromFile(saved, path).blocked
                /\ LoadFromFile(saved, path).err = "nil"
                /\ gbGetText(LoadFromFile(saved, path).gapBuffer) = ConvertEOL(Text, EOLUnix)

\* C26: after a successful LoadFromFile the text holds no '\r', whatever mix
\* of "\r\n", '\r' and '\n' the file holds, and the tag is Windows if the
\* file holds "\r\n", else Mac if it holds '\r' and no '\n', else Unix.
C26_LoadNormalisesToLF ==
    ~call.blocked /\ ~call.crashed =>
        \A path \in Paths, loaded \in {LoadFromFile(Self, p) : p \in Paths} :
            loaded.filePath = path /\ disk[path] # NoFile /\ loaded.err = "nil" =>
                /\ TerminatorsHaveForm(gbGetText(loaded.gapBuffer), EOLUnix)
                /\ loaded.eolType =
                       IF StrContains(disk[path], <<CR, LF>>) THEN EOLWindows
                       ELSE IF StrContains(disk[path], <<CR>>) /\ ~StrContains(disk[path], <<LF>>)
                            THEN EOLMac
                            ELSE EOLUnix

(***************************************************************************)
(* Positions and ranges (position.go).                                     *)
(***************************************************************************)
MaxCoordinate == 2

IsBeforeOrEqual(p, other) ==
    IF p.Line < other.Line THEN TRUE
    ELSE IF p.Line = other.Line /\ p.Column <= other.Column THEN TRUE
    ELSE FALSE

IsBefore(p, other) ==
    IF p.Line < other.Line THEN TRUE
    ELSE IF p.Line = other.Line /\ p.Column < other.Column THEN TRUE
    ELSE FALSE

IsAfterOrEqual(p, other) == ~IsBefore(p, other)

IsAfter(p, other) == ~IsBeforeOrEqual(p, other)

Equals(p, other) == p.Line = other.Line /\ p.Column = other.Column

Contains(r, position) ==
    IsAfterOrEqual(position, r.Start) /\ IsBeforeOrEqual(position, r.End)

ContainsRange(r, other) == Contains(r, other.Start) /\ Contains(r, other.End)

Overlaps(r, other) ==
    \/ Contains(r, other.Start) \/ Contains(r, other.End)
    \/ Contains(other, r.Start) \/ Contains(other, r.End)

IsEmpty(r) == Equals(r.Start, r.End)

\* the positions and the ranges (start <= end) the range methods are called with
AllPositions == [Line : 0..MaxCoordinate, Column : 0..MaxCoordinate]
OrderedRanges == {r \in [Start : AllPositions, End : AllPositions] : IsBeforeOrEqual(r.Start, r.End)}

\* the call op of a method of the range r, with its argument and its result
RangeCall(op, r, argument, result) ==
    /\ call' = [op |-> op, range |-> r, argument |-> argument, result |-> result]
    /\ UNCHANGED <<gapBuffer, undoStack, eolType, languageID, filePath, modified, mutex, disk>>
    /\ UNCHANGED <<history, stack, stackLog, threads, dispatch, pool, savedText>>

DoContains ==
    \E r \in OrderedRanges, position \in AllPositions :
        RangeCall("Contains", r, position, Contains(r, position))

DoContainsRange ==
    \E r \in OrderedRanges, other \in OrderedRanges :
        RangeCall("ContainsRange", r, other, ContainsRange(r, other))

DoOverlaps ==
    \E r \in OrderedRanges, other \in OrderedRanges :
        RangeCall("Overlaps", r, other, Overlaps(r, other))

DoIsEmpty == \E r \in OrderedRanges : RangeCall("IsEmpty", r, r, IsEmpty(r))

\* one call of a method on each range
RangeMore == call.op = "NewTextBuffer"

NextRanges ==
    \/ RangeMore /\ DoContains
    \/ RangeMore /\ DoContainsRange
    \/ RangeMore /\ DoOverlaps
    \/ RangeMore /\ DoIsEmpty

SpecRanges == InitWith({<<>>}) /\ [][NextRanges]_vars

\* C27: range membership is half-open: Contains(pos) holds exactly when
\* start <= pos < end in the lexicographic order of (line, column), so that
\* the end of a range is outside it and an empty range contains no position.
C27_ContainsIsHalfOpen ==
    call.op = "Contains" =>
        (call.result <=>
            /\ \/ call.range.Start.Line < call.argument.Line
               \/ /\ call.range.Start.Line = call.argument.Line
                  /\ call.range.Start.Column <= call.argument.Column
            /\ \/ call.argument.Line < call.range.End.Line
               \/ /\ call.argument.Line = call.range.End.Line
                  /\ call.argument.Column < call.range.End.Column)

(***************************************************************************)
(* The end of a buffer's life: Close, and the edits made after it.         *)
(***************************************************************************)
ClosePositions == Positions \cup {[Line |-> -1, Column |-> 0]}

DoClose == Complete("Close", Close(Self), NoPosition, NoPosition)

DoInsertAt ==
    \E position \in ClosePositions, text \in InsertTexts :
        Complete("Insert", Insert(Self, position, text), position, position)

DoDeleteAt ==
    \E start \in ClosePositions, end \in ClosePositions :
        Complete("Delete", Delete(Self, [Start |-> start, End |-> end]), start, end)

NextClose ==
    \/ AnyMore /\ DoClose
    \/ AnyMore /\ DoInsertAt
    \/ AnyMore /\ DoDeleteAt

SpecClose == Init /\ [][NextClose]_vars

\* C28: operations on a closed buffer are safe: after Close() a call of
\* Insert or Delete returns to its caller, with success or an error, without
\* crashing, and leaves the buffer's lock free.
C28_EditsAfterCloseAreSafe ==
    IsNil(gapBuffer) /\ call.op \in {"Insert", "Delete"} =>
        /\ ~call.crashed /\ ~call.blocked
        /\ ~mutex.writer /\ mutex.readers = 0

(***************************************************************************)
(* Adding and removing listeners, and the events delivered to them.        *)
(***************************************************************************)
MaxTable == 2

ListenerIds == 1..MaxTable

\* AddEventListener(EventTextChanged, l) of a listener that is not registered
ListenerAdd ==
    \E l \in ListenerIds \ Registered(dispatch.listeners) :
        /\ dispatch' = [dispatch EXCEPT
                           !.listeners = AddEventListener(@, l),
                           !.removed = {r \in @ : r.listener # l}]
        /\ UNCHANGED <<gapBuffer, undoStack, modified, eolType, languageID, filePath, mutex,
                       disk, call, history, stack, stackLog, threads, pool, savedText>>

\* RemoveEventListener(EventTextChanged, l) of a registered listener
ListenerRemove ==
    \E l \in Registered(dispatch.listeners) :
        /\ dispatch' = [dispatch EXCEPT
                           !.listeners = RemoveEventListener(@, l),
                           !.removed = {r \in @ : r.listener # l} \cup
                                       {[listener |-> l, since |-> dispatch.effects,
                                         others |-> Registered(dispatch.listeners) \ {l}]}]
        /\ UNCHANGED <<gapBuffer, undoStack, modified, eolType, languageID, filePath, mutex,
                       disk, call, history, stack, stackLog, threads, pool, savedText>>

NextListeners ==
    \/ ListenerAdd
    \/ ListenerRemove
    \/ EventInsert
    \/ EventDeliver

SpecListeners == Init /\ [][NextListeners]_vars

\* C29: RemoveEventListener removes the listener: after AddEventListener(type,
\* l) and RemoveEventListener(type, l) the listener l is not in the table of
\* that type and is not called for an event of that type triggered later,
\* while the other listeners of that type stay registered.
C29_RemovedListenerIsGone ==
    \A r \in dispatch.removed :
        /\ r.listener \notin Registered(dispatch.listeners)
        /\ \A i \in DOMAIN dispatch.delivered :
              dispatch.delivered[i].listener = r.listener => dispatch.delivered[i].id <= r.since
        /\ \A o \in r.others :
              \/ o \in Registered(dispatch.listeners)
              \/ \E q \in dispatch.removed : q.listener = o

(***************************************************************************)
(* The gap itself (memory_monitor.go:1362-1570, 1668-1910).  Here          *)
(* gapBuffer holds the fields of the GapBuffer: buffer, the cells of       *)
(* gb.buffer (a buffer made by make has no spare capacity and holds        *)
(* zeros), gapStart, gapEnd and size; panic: a slice or index expression   *)
(* was out of range; text: the ordinary string the same splices give;      *)
(* plain: only Insert, Delete, Clear and SetText ran since the buffer was  *)
(* last emptied.  The three size constants are scaled down from 4096,      *)
(* 1048576 and 10485760, keeping their order and the doubling from         *)
(* initialGapSize up to maxGapSize.                                        *)
(***************************************************************************)
initialGapSize == 1
maxGapSize == 2
largeTextThreshold == 3

\* the longest text and the largest argument of the calls
MaxGapText == 4
MaxGapArg == 4

\* make([]rune, n)
Zeros(n) == [i \in 1..n |-> 0]

\* copy(dst[at:], src)
CopyInto(dst, at, src) ==
    [i \in 1..Len(dst) |-> IF i > at /\ i <= at + Len(src) THEN src[i - at] ELSE dst[i]]

\* NewGapBuffer
NewGapIndices ==
    [buffer |-> Zeros(initialGapSize), gapStart |-> 0, gapEnd |-> initialGapSize, size |-> 0,
     panic |-> FALSE, text |-> <<>>, plain |-> TRUE]

\* s[lo:hi] of a slice of capacity c is in range
SliceInRange(lo, hi, c) == 0 <= lo /\ lo <= hi /\ hi <= c

GoPanic(g) == [g EXCEPT !.panic = TRUE]

\* position clamped to 0..size
Clamped(g, position) ==
    IF position < 0 THEN 0 ELSE IF position > g.size THEN g.size ELSE position

\* moveGap(pos) for a pos already clamped, pos < gapStart
moveGapLeft(g, pos) ==
    IF /\ SliceInRange(g.gapEnd - (g.gapStart - pos), Len(g.buffer), Len(g.buffer))
       /\ SliceInRange(pos, g.gapStart, Len(g.buffer))
    THEN [g EXCEPT !.buffer = CopyInto(g.buffer, g.gapEnd - (g.gapStart - pos),
                                       Slice(g.buffer, pos, g.gapStart)),
                   !.gapStart = pos, !.gapEnd = pos + (g.gapEnd - g.gapStart)]
    ELSE GoPanic(g)

\* moveGap(pos) for a pos already clamped, pos >= gapStart
moveGapRight(g, pos) ==
    IF pos = g.gapStart THEN g
    ELSE IF /\ SliceInRange(g.gapStart, Len(g.buffer), Len(g.buffer))
            /\ SliceInRange(g.gapEnd, g.gapEnd + (pos - g.gapStart), Len(g.buffer))
    THEN [g EXCEPT !.buffer = CopyInto(g.buffer, g.gapStart,
                                       Slice(g.buffer, g.gapEnd, g.gapEnd + (pos - g.gapStart))),
                   !.gapStart = pos, !.gapEnd = pos + (g.gapEnd - g.gapStart)]
    ELSE GoPanic(g)

\* moveGap(pos)
moveGap(g, pos) ==
    IF g.panic \/ pos = g.gapStart THEN g
    ELSE IF Clamped(g, pos) < g.gapStart THEN moveGapLeft(g, Clamped(g, pos))
    ELSE moveGapRight(g, Clamped(g, pos))

\* the loop of ensureGapSize: newGapSize doubled until it reaches minSize
RECURSIVE Doubled(_, _)
Doubled(newGapSize, minSize) ==
    IF newGapSize < minSize THEN Doubled(newGapSize * 2, minSize) ELSE newGapSize

\* the buffer reallocated with newSize cells and a gap of newGapSize
Reallocated(g, newSize, newGapSize) ==
    IF /\ newSize >= 0
       /\ SliceInRange(0, g.gapStart, Len(g.buffer))
       /\ SliceInRange(g.gapStart + newGapSize, newSize, newSize)
       /\ SliceInRange(g.gapEnd, Len(g.buffer), Len(g.buffer))
    THEN [g EXCEPT !.buffer = CopyInto(CopyInto(Zeros(newSize), 0, Slice(g.buffer, 0, g.gapStart)),
                                       g.gapStart + newGapSize,
                                       Slice(g.buffer, g.gapEnd, Len(g.buffer))),
                   !.gapEnd = g.gapStart + newGapSize]
    ELSE GoPanic(g)

\* the buffer reallocated with a gap of newGapSize
Regapped(g, newGapSize) ==
    Reallocated(g, Len(g.buffer) - (g.gapEnd - g.gapStart) + newGapSize, newGapSize)

\* ensureGapSize(minSize)
ensureGapSize(g, minSize) ==
    IF g.panic \/ g.gapEnd - g.gapStart >= minSize THEN g
    ELSE Regapped(g, IF Doubled(initialGapSize, minSize) > maxGapSize
                     THEN maxGapSize ELSE Doubled(initialGapSize, minSize))

\* the copy of the runes to the start of the gap, and the new indices
Stored(g, runes) ==
    IF g.panic THEN g
    ELSE IF ~SliceInRange(g.gapStart, g.gapStart + Len(runes), Len(g.buffer)) THEN GoPanic(g)
    ELSE [g EXCEPT !.buffer = CopyInto(g.buffer, g.gapStart, runes),
                   !.gapStart = @ + Len(runes), !.size = @ + Len(runes)]

\* GapBuffer.Insert(position, text)
gapInsert(g, position, runes) ==
    IF runes = <<>> THEN g
    ELSE Stored(ensureGapSize(moveGap(g, Clamped(g, position)), Len(runes)), runes)

\* the gap grown by the deleteSize runes after it
GapGrown(g, deleteSize) ==
    IF g.panic THEN g ELSE [g EXCEPT !.gapEnd = @ + deleteSize, !.size = @ - deleteSize]

\* a gap above limit shrinks to initialGapSize
Shrunk(g, limit) ==
    IF g.panic \/ g.gapEnd - g.gapStart <= limit THEN g ELSE Regapped(g, initialGapSize)

\* the cells of the gap set to zero: gb.buffer[i] = 0 for gapStart <= i < gapEnd
Zeroed(g) ==
    IF g.panic \/ g.gapEnd - g.gapStart > maxGapSize \/ g.gapStart >= g.gapEnd THEN g
    ELSE IF ~SliceInRange(g.gapStart, g.gapEnd, Len(g.buffer)) THEN GoPanic(g)
    ELSE [g EXCEPT !.buffer = CopyInto(g.buffer, g.gapStart, Zeros(g.gapEnd - g.gapStart))]

\* GapBuffer.Delete(start, end): the gap is either shrunk or cleared
gapDelete(g, start, end) ==
    IF start < 0 \/ end > g.size \/ start >= end THEN g
    ELSE Shrunk(Zeroed(GapGrown(moveGap(g, start), end - start)), maxGapSize)

\* GapBuffer.Clear()
gapClear(g) ==
    [g EXCEPT !.buffer = Zeros(initialGapSize), !.gapStart = 0, !.gapEnd = initialGapSize,
              !.size = 0]

\* the text copied to the front of the buffer after moveGap(0)
Refilled(g, runes) ==
    IF g.panic THEN g
    ELSE IF ~SliceInRange(0, Len(runes), Len(g.buffer)) THEN GoPanic(g)
    ELSE [g EXCEPT !.buffer = CopyInto(g.buffer, 0, runes), !.gapStart = Len(runes),
                   !.gapEnd = Len(g.buffer), !.size = Len(runes)]

\* GapBuffer.SetText(text)
gapSetText(g, runes) ==
    IF Len(runes) > Len(g.buffer) - (g.gapEnd - g.gapStart)
    THEN [g EXCEPT !.buffer = runes \o Zeros(initialGapSize), !.gapStart = Len(runes),
                   !.gapEnd = Len(runes) + initialGapSize, !.size = Len(runes)]
    ELSE Refilled(moveGap(g, 0), runes)

\* GapBuffer.GetText() without the cache: the cells before and after the gap,
\* the zeros removed
gapGetText(g) ==
    IF g.size = 0 THEN <<>>
    ELSE SelectSeq((IF g.gapStart > 0 THEN Slice(g.buffer, 0, g.gapStart) ELSE <<>>)
                   \o (IF g.gapEnd < Len(g.buffer)
                       THEN Slice(g.buffer, g.gapEnd, Len(g.buffer)) ELSE <<>>),
                   LAMBDA r : r # 0)

\* GapBuffer.GetTextInRange(start, end)
gapGetTextInRange(g, start, end) ==
    IF start < 0 \/ end > g.size \/ start >= end THEN <<>>
    ELSE IF end <= g.gapStart THEN Slice(g.buffer, start, end)
    ELSE IF start >= g.gapStart
    THEN Slice(g.buffer, start + (g.gapEnd - g.gapStart), end + (g.gapEnd - g.gapStart))
    ELSE Slice(g.buffer, start, g.gapStart)
         \o Slice(g.buffer, g.gapEnd, g.gapEnd + (end - g.gapStart))

\* GetTextChunk(start, end) for a range already clamped
ChunkOf(g, start, end) ==
    IF start >= end THEN <<>>
    ELSE IF (start <= g.gapStart /\ end <= g.gapStart) \/ (start >= g.gapStart /\ end >= g.gapStart)
    THEN Slice(g.buffer,
               IF start > g.gapStart THEN start + (g.gapEnd - g.gapStart) ELSE start,
               IF end > g.gapStart THEN end + (g.gapEnd - g.gapStart) ELSE end)
    ELSE Slice(g.buffer, start, g.gapStart)
         \o Slice(g.buffer, g.gapEnd, end + (g.gapEnd - g.gapStart))

\* GetTextChunk(start, end)
GetTextChunk(g, start, end) ==
    ChunkOf(g, IF start < 0 THEN 0 ELSE start, IF end > g.size THEN g.size ELSE end)

\* the buffer made for insertSize runes and a gap of initialGapSize after them
Widened(g, insertSize) ==
    IF g.panic \/ g.gapEnd - g.gapStart >= insertSize THEN g
    ELSE Reallocated(g, Len(g.buffer) + insertSize - (g.gapEnd - g.gapStart) + initialGapSize,
                     insertSize + initialGapSize)

\* InsertChunk(pos, text); the chunks of maxGapSize / 2 runes are copied one
\* after the other to the start of the gap
InsertChunk(g, pos, runes) ==
    IF runes = <<>> THEN g
    ELSE IF Len(runes) > largeTextThreshold
    THEN gapSetText(g, GetTextChunk(g, 0, Clamped(g, pos)) \o runes
                       \o GetTextChunk(g, Clamped(g, pos), g.size))
    ELSE IF Len(runes) > maxGapSize
    THEN Stored(Widened(moveGap(g, Clamped(g, pos)), Len(runes)), runes)
    ELSE gapInsert(g, Clamped(g, pos), runes)

\* DeleteChunk(start, end) of a range already clamped, start < end
DeleteClamped(g, start, end) ==
    IF end - start > largeTextThreshold
    THEN gapSetText(g, GetTextChunk(g, 0, start) \o GetTextChunk(g, end, g.size))
    ELSE IF end - start > maxGapSize
    THEN Shrunk(GapGrown(moveGap(g, start), end - start), maxGapSize * 2)
    ELSE gapDelete(g, start, end)

\* DeleteChunk(start, end)
DeleteChunk(g, start, end) ==
    IF (IF start < 0 THEN 0 ELSE start) >= (IF end > g.size THEN g.size ELSE end) THEN g
    ELSE DeleteClamped(g, IF start < 0 THEN 0 ELSE start, IF end > g.size THEN g.size ELSE end)

\* ReplaceChunk(start, end, text) of a range already clamped, start <= end
ReplaceClamped(g, start, end, runes) ==
    IF Len(runes) > largeTextThreshold \/ end - start > largeTextThreshold
    THEN gapSetText(g, GetTextChunk(g, 0, start) \o runes \o GetTextChunk(g, end, g.size))
    ELSE IF Len(runes) > maxGapSize \/ end - start > maxGapSize
    THEN InsertChunk(DeleteChunk(g, start, end), start, runes)
    ELSE gapInsert(gapDelete(g, start, end), start, runes)

\* ReplaceChunk(start, end, text)
ReplaceChunk(g, start, end, runes) ==
    ReplaceClamped(g,
                   IF (IF start < 0 THEN 0 ELSE start) > (IF end > g.size THEN g.size ELSE end)
                   THEN (IF end > g.size THEN g.size ELSE end)
                   ELSE (IF start < 0 THEN 0 ELSE start),
                   IF end > g.size THEN g.size ELSE end,
                   runes)

\* the ordinary string after the splice of s[start:end] by runes
Spliced(s, start, end, runes) == Slice(s, 0, start) \o runes \o Slice(s, end, Len(s))

GapArgs == -1..MaxGapArg

\* the texts the calls are given: runs of one letter
GapTexts == {[i \in 1..n |-> r] : n \in 0..MaxGapArg, r \in {97, 98}}

\* a method of the GapBuffer ran from gapBuffer to g; text: the ordinary
\* string after the same call
GapCall(op, g, text) ==
    /\ ~gapBuffer.panic
    /\ Len(text) <= MaxGapText /\ g.size <= MaxGapText
    /\ gapBuffer' = [g EXCEPT !.text = text,
                              !.plain = IF op \in {"Clear", "SetText"} THEN TRUE
                                        ELSE IF op \in {"Insert", "Delete"} THEN @
                                        ELSE FALSE]
    /\ call' = [op |-> op]
    /\ UNCHANGED <<undoStack, eolType, languageID, filePath, modified, mutex, disk>>
    /\ UNCHANGED <<history, stack, stackLog, threads, dispatch, pool, savedText>>

\* the range start..end clamped as the chunked calls clamp it
ClampedEnd(s, end) == IF end > Len(s) THEN Len(s) ELSE IF end < 0 THEN 0 ELSE end
ClampedStart(s, start, end) ==
    IF (IF start < 0 THEN 0 ELSE start) > ClampedEnd(s, end) THEN ClampedEnd(s, end)
    ELSE IF start < 0 THEN 0 ELSE start

GapInsert ==
    \E position \in GapArgs, runes \in GapTexts :
        GapCall("Insert", gapInsert(gapBuffer, position, runes),
                Spliced(gapBuffer.text, ClampedEnd(gapBuffer.text, position),
                        ClampedEnd(gapBuffer.text, position), runes))

GapDelete ==
    \E start \in GapArgs, end \in GapArgs :
        GapCall("Delete", gapDelete(gapBuffer, start, end),
                IF start < 0 \/ end > Len(gapBuffer.text) \/ start >= end THEN gapBuffer.text
                ELSE Spliced(gapBuffer.text, start, end, <<>>))

GapClear == GapCall("Clear", gapClear(gapBuffer), <<>>)

GapSetText == \E runes \in GapTexts : GapCall("SetText", gapSetText(gapBuffer, runes), runes)

GapInsertChunk ==
    \E pos \in GapArgs, runes \in GapTexts :
        GapCall("InsertChunk", InsertChunk(gapBuffer, pos, runes),
                Spliced(gapBuffer.text, ClampedEnd(gapBuffer.text, pos),
                        ClampedEnd(gapBuffer.text, pos), runes))

GapDeleteChunk ==
    \E start \in GapArgs, end \in GapArgs :
        GapCall("DeleteChunk", DeleteChunk(gapBuffer, start, end),
                Spliced(gapBuffer.text, ClampedStart(gapBuffer.text, start, end),
                        ClampedEnd(gapBuffer.text, end), <<>>))

GapReplaceChunk ==
    \E start \in GapArgs, end \in GapArgs, runes \in GapTexts :
        GapCall("ReplaceChunk", ReplaceChunk(gapBuffer, start, end, runes),
                Spliced(gapBuffer.text, ClampedStart(gapBuffer.text, start, end),
                        ClampedEnd(gapBuffer.text, end), runes))

InitGap ==
    /\ gapBuffer = NewGapIndices
    /\ eolType = EOLUnix
    /\ history = [phase |-> "off", texts |-> <<>>, k |-> 0]
    /\ InitRest

NextGap ==
    \/ GapInsert
    \/ GapDelete
    \/ GapClear
    \/ GapSetText
    \/ GapInsertChunk
    \/ GapDeleteChunk
    \/ GapReplaceChunk

SpecGap == InitGap /\ [][NextGap]_vars

\* C30: the structural invariant of the gap buffer: in every reachable
\* state, after any sequence of Insert, Delete, Clear, SetText, InsertChunk,
\* DeleteChunk and ReplaceChunk with arguments of any size, an Insert of more
\* runes than the maximum gap size included,
\* 0 <= gapStart <= gapEnd <= len(buffer) and
\* size = len(buffer) - (gapEnd - gapStart).
C30_GapStructure ==
    /\ 0 <= gapBuffer.gapStart
    /\ gapBuffer.gapStart <= gapBuffer.gapEnd
    /\ gapBuffer.gapEnd <= Len(gapBuffer.buffer)
    /\ gapBuffer.size = Len(gapBuffer.buffer) - (gapBuffer.gapEnd - gapBuffer.gapStart)

\* C31: the gap buffer refines a plain sequence: after any sequence of
\* Insert, Delete, Clear and SetText, with any gap position and insert
\* length, no call has panicked and GetText() and GetLength() are those of
\* the ordinary string the same splices give.
C31_GapRefinesSequence ==
    gapBuffer.plain =>
        /\ ~gapBuffer.panic
        /\ gapGetText(gapBuffer) = gapBuffer.text
        /\ gapBuffer.size = Len(gapBuffer.text)

(***************************************************************************)
(* The large-text operations of the TextBuffer (text_buffer.go:1389-1912)  *)
(* on the GapBuffer seen as its content and its caches.  Where the gap     *)
(* lies, and what GetTextChunk returns for a range that starts at the gap, *)
(* is in the model of the gap above; here GetTextChunk gives the runes of  *)
(* the range.                                                              *)
(***************************************************************************)
\* the longest text of a buffer the large-text operations run on
MaxLargeLen == 4
MaxLargeCalls == 3

\* GetTextChunk(start, end)
gbGetTextChunk(gb, start, end) ==
    Slice(gb.buf, IF start < 0 THEN 0 ELSE start,
          IF end > gbGetLength(gb) THEN gbGetLength(gb) ELSE end)

\* InsertChunk(pos, text) for a pos already clamped
gbInsertClamped(gb, pos, text) ==
    IF Len(text) > largeTextThreshold
    THEN gbSetText(gb, gbGetTextChunk(gb, 0, pos) \o text
                       \o gbGetTextChunk(gb, pos, gbGetLength(gb)))
    ELSE IF Len(text) > maxGapSize
    THEN gbInvalidate([gb EXCEPT !.buf = Slice(gb.buf, 0, pos) \o text
                                         \o Slice(gb.buf, pos, Len(gb.buf))])
    ELSE gbInsert(gb, pos, text)

\* InsertChunk(pos, text)
gbInsertChunk(gb, pos, text) ==
    IF text = <<>> THEN gb
    ELSE gbInsertClamped(gb, IF pos < 0 THEN 0
                             ELSE IF pos > gbGetLength(gb) THEN gbGetLength(gb) ELSE pos,
                         text)

\* DeleteChunk(start, end) for a range already clamped, start < end
gbDeleteClamped(gb, start, end) ==
    IF end - start > largeTextThreshold
    THEN gbSetText(gb, gbGetTextChunk(gb, 0, start) \o gbGetTextChunk(gb, end, gbGetLength(gb)))
    ELSE IF end - start > maxGapSize
    THEN gbInvalidate([gb EXCEPT !.buf = Slice(gb.buf, 0, start)
                                         \o Slice(gb.buf, end, Len(gb.buf))])
    ELSE gbDelete(gb, start, end)

\* DeleteChunk(start, end)
gbDeleteChunk(gb, start, end) ==
    IF (IF start < 0 THEN 0 ELSE start) >= (IF end > gbGetLength(gb) THEN gbGetLength(gb) ELSE end)
    THEN gb
    ELSE gbDeleteClamped(gb, IF start < 0 THEN 0 ELSE start,
                         IF end > gbGetLength(gb) THEN gbGetLength(gb) ELSE end)

\* ReplaceChunk(start, end, text) for a range already clamped, start <= end
gbReplaceClamped(gb, start, end, text) ==
    IF Len(text) > largeTextThreshold \/ end - start > largeTextThreshold
    THEN gbSetText(gb, gbGetTextChunk(gb, 0, start) \o text
                       \o gbGetTextChunk(gb, end, gbGetLength(gb)))
    ELSE IF Len(text) > maxGapSize \/ end - start > maxGapSize
    THEN gbInsertChunk(gbDeleteChunk(gb, start, end), start, text)
    ELSE gbInsert(gbDelete(gb, start, end), start, text)

\* ReplaceChunk(start, end, text)
gbReplaceChunk(gb, start, end, text) ==
    gbReplaceClamped(gb,
                     IF (IF start < 0 THEN 0 ELSE start)
                        > (IF end > gbGetLength(gb) THEN gbGetLength(gb) ELSE end)
                     THEN (IF end > gbGetLength(gb) THEN gbGetLength(gb) ELSE end)
                     ELSE (IF start < 0 THEN 0 ELSE start),
                     IF end > gbGetLength(gb) THEN gbGetLength(gb) ELSE end,
                     text)

\* the undo log after a large edit: the record pushed when small is true,
\* the log cleared when it is not
LargeLogged(s, small, operation) ==
    Wr(s, "undoStack", IF small THEN usPush(s.undoStack, operation) ELSE usClear(s.undoStack))

\* InsertLargeText(position, text)
InsertLargeText(s, position, text) ==
    IF text = <<>> THEN Return(s, "nil")
    ELSE LET s1 == Lock(s)
             offset == gbGetOffsetAt(s1.gapBuffer, position)
             s2 == WrGb(s1, gbAfterGetOffsetAt(s1.gapBuffer, position))
             s3 == LargeLogged(s2, ByteLen(text) < maxGapSize,
                               [Type |-> OperationInsert, Position |-> position,
                                Text |-> text, OldText |-> <<>>])
             s4 == Wr(s3, "gapBuffer", gbInsertChunk(s3.gapBuffer, offset, text))
             s5 == Wr(s4, "modified", TRUE)
             s6 == Unlock(s5)
         IN Return(triggerEvent(s6, EventTextChanged, OperationInsert), "nil")

\* DeleteLargeRange(r)
DeleteLargeRange(s, r) ==
    LET s1 == Lock(s)
        startOffset == gbGetOffsetAt(s1.gapBuffer, r.Start)
        s2 == WrGb(s1, gbAfterGetOffsetAt(s1.gapBuffer, r.Start))
        endOffset == gbGetOffsetAt(s2.gapBuffer, r.End)
        s3 == WrGb(s2, gbAfterGetOffsetAt(s2.gapBuffer, r.End))
    IN IF startOffset >= endOffset THEN Return(Unlock(s3), "nil")
       ELSE LET oldText == gbGetTextInRange(s3.gapBuffer, startOffset, endOffset)
                s4 == LargeLogged(s3, endOffset - startOffset < maxGapSize,
                                  [Type |-> OperationDelete, Position |-> r.Start,
                                   Text |-> oldText, OldText |-> oldText])
                s5 == Wr(s4, "gapBuffer", gbDeleteChunk(s4.gapBuffer, startOffset, endOffset))
                s6 == Wr(s5, "modified", TRUE)
                s7 == Unlock(s6)
            IN Return(triggerEvent(s7, EventTextChanged, OperationDelete), "nil")

\* ReplaceLargeRange(r, text)
ReplaceLargeRange(s, r, text) ==
    LET s1 == Lock(s)
        startOffset == gbGetOffsetAt(s1.gapBuffer, r.Start)
        s2 == WrGb(s1, gbAfterGetOffsetAt(s1.gapBuffer, r.Start))
        endOffset == gbGetOffsetAt(s2.gapBuffer, r.End)
        s3 == WrGb(s2, gbAfterGetOffsetAt(s2.gapBuffer, r.End))
    IN IF startOffset > endOffset THEN Return(Unlock(s3), "invalid range")
       ELSE LET oldText == gbGetTextInRange(s3.gapBuffer, startOffset, endOffset)
                s4 == LargeLogged(s3, endOffset - startOffset < maxGapSize
                                      /\ Len(text) < maxGapSize,
                                  [Type |-> OperationReplace, Position |-> r.Start,
                                   Text |-> text, OldText |-> oldText])
                s5 == Wr(s4, "gapBuffer",
                         gbReplaceChunk(s4.gapBuffer, startOffset, endOffset, text))
                s6 == Wr(s5, "modified", TRUE)
                s7 == Unlock(s6)
            IN Return(triggerEvent(s7, EventTextChanged, OperationReplace), "nil")

\* the loop of ReplaceAllLarge steps 10 * 1024 * 1024 runes at a time, the
\* value of largeTextThreshold
replaceChunkSize == largeTextThreshold

\* the searched text as FindTextForward and the chunk loop see it
Searched(bytes, caseSensitive) == IF caseSensitive THEN bytes ELSE StrToLower(bytes)

\* strings.Index(text[startPos:], searchText), moved to an index of text
IndexFrom(text, startPos, searchText) ==
    IF StrIndex(Slice(text, startPos, Len(text)), searchText) = -1 THEN -1
    ELSE startPos + StrIndex(Slice(text, startPos, Len(text)), searchText)

\* FindTextForward(searchText, startPos, caseSensitive): start, or -1; end is
\* start + len([]rune(searchText)).  startPos counts runes and indexes the
\* bytes of the text
gbFindTextForward(gb, searchText, startPos, caseSensitive) ==
    IF searchText = <<>> \/ startPos >= gbGetLength(gb) THEN -1
    ELSE IndexFrom(Searched(Utf8Encode(gbGetText(gb)), caseSensitive),
                   IF startPos < 0 THEN 0 ELSE startPos,
                   Searched(Utf8Encode(searchText), caseSensitive))

\* GetTextInRangeByOffset(start, end)
GetTextInRangeByOffset(gb, start, end) ==
    IF start < 0 \/ end > gbGetLength(gb) \/ start >= end THEN <<>>
    ELSE gbGetTextInRange(gb, start, end)

\* the whole-word test of the loop below the threshold, on the runes before
\* start and at end
LargeWholeWord(gb, start, end) ==
    /\ ~(start > 0 /\ isWordChar(GetTextInRangeByOffset(gb, start - 1, start)[1]))
    /\ ~(end < gbGetLength(gb) /\ isWordChar(GetTextInRangeByOffset(gb, end, end + 1)[1]))

\* the result of the loops of ReplaceAllLarge before any match; gb: the
\* GapBuffer with the caches the loop has filled
NoMatches(gb) == [lastEnd |-> 0, built |-> <<>>, count |-> 0, outcome |-> "done", gb |-> gb]

\* the GapBuffer after GetOffsetAt(position) and FindTextForward from there
AfterFind(gb, position) ==
    IF gbGetOffsetAt(gb, position) >= gbGetLength(gb) THEN gbAfterGetOffsetAt(gb, position)
    ELSE gbAfterGetText(gbAfterGetOffsetAt(gb, position))

\* the loop of ReplaceAllLarge below the threshold, from position; fuel
\* bounds the iterations: the loop that uses it up never ends
RECURSIVE SmallLoop(_, _, _, _, _, _, _, _)
RECURSIVE SmallMatch(_, _, _, _, _, _, _, _)
SmallLoop(gb, searchText, replaceText, caseSensitive, wholeWord, position, acc, fuel) ==
    IF fuel = 0 THEN [acc EXCEPT !.outcome = "hang"]
    ELSE IF gbFindTextForward(gb, searchText, gbGetOffsetAt(gb, position), caseSensitive) = -1
    THEN [acc EXCEPT !.gb = AfterFind(gb, position)]
    ELSE SmallMatch(AfterFind(gb, position), searchText, replaceText, caseSensitive, wholeWord,
                    gbFindTextForward(gb, searchText, gbGetOffsetAt(gb, position),
                                      caseSensitive),
                    acc, fuel)

\* one match of the loop, at start
SmallMatch(gb, searchText, replaceText, caseSensitive, wholeWord, start, acc, fuel) ==
    IF wholeWord /\ start > 0 /\ GetTextInRangeByOffset(gb, start - 1, start) = <<>>
    THEN [acc EXCEPT !.outcome = "panic", !.gb = gb]
    ELSE SmallLoop(gbAfterGetPositionAt(gb, start + Len(searchText)),
                   searchText, replaceText, caseSensitive, wholeWord,
                   gbGetPositionAt(gb, start + Len(searchText)),
                   IF wholeWord /\ ~LargeWholeWord(gb, start, start + Len(searchText))
                   THEN acc
                   ELSE [acc EXCEPT !.built = @ \o GetTextInRangeByOffset(gb, acc.lastEnd, start)
                                                \o replaceText,
                                    !.lastEnd = start + Len(searchText),
                                    !.count = @ + 1],
                   fuel - 1)

\* the text after the last match added
SmallRest(gb, acc) ==
    IF acc.lastEnd < gbGetLength(gb)
    THEN acc.built \o GetTextInRangeByOffset(gb, acc.lastEnd, gbGetLength(gb))
    ELSE acc.built

\* the whole-word test of the chunk loop: the bytes next to the match,
\* converted to runes one by one
ChunkWholeWord(searchChunk, matchStart, matchEnd) ==
    /\ ~(matchStart > 0 /\ isWordChar(searchChunk[matchStart]))
    /\ ~(matchEnd < Len(searchChunk) /\ isWordChar(searchChunk[matchEnd + 1]))

\* the search of one chunk from lastChunkEnd; chunk, searchPattern and
\* replaceText are bytes, offset counts runes
RECURSIVE ChunkScan(_, _, _, _, _, _, _, _)
RECURSIVE ChunkMatch(_, _, _, _, _, _, _, _)
ChunkScan(chunk, searchChunk, searchPattern, replaceText, wholeWord, offset, lastChunkEnd, acc) ==
    IF lastChunkEnd >= Len(searchChunk) \/ IndexFrom(searchChunk, lastChunkEnd, searchPattern) = -1
    THEN acc
    ELSE ChunkMatch(chunk, searchChunk, searchPattern, replaceText, wholeWord, offset,
                    IndexFrom(searchChunk, lastChunkEnd, searchPattern), acc)

\* one match of the chunk, at matchStart
ChunkMatch(chunk, searchChunk, searchPattern, replaceText, wholeWord, offset, matchStart, acc) ==
    IF wholeWord /\ ~ChunkWholeWord(searchChunk, matchStart, matchStart + Len(searchPattern))
    THEN ChunkScan(chunk, searchChunk, searchPattern, replaceText, wholeWord, offset,
                   matchStart + Len(searchPattern), acc)
    ELSE IF ~SliceInRange(acc.lastEnd - offset, matchStart, Len(chunk))
    THEN [acc EXCEPT !.outcome = "panic"]
    ELSE ChunkScan(chunk, searchChunk, searchPattern, replaceText, wholeWord, offset,
                   matchStart + Len(searchPattern),
                   [acc EXCEPT !.built = @ \o Slice(chunk, acc.lastEnd - offset, matchStart)
                                           \o replaceText,
                               !.lastEnd = offset + matchStart + Len(searchPattern),
                               !.count = @ + 1])

\* the end of one chunk: what is left of it is added, lastEnd moves on
ChunkDone(chunk, offset, acc) ==
    IF acc.outcome # "done" THEN acc
    ELSE [acc EXCEPT !.built = IF acc.lastEnd <= offset THEN @ \o chunk
                               ELSE IF acc.lastEnd < offset + Len(chunk)
                               THEN @ \o Slice(chunk, acc.lastEnd - offset, Len(chunk))
                               ELSE @,
                     !.lastEnd = IF @ < offset + Len(chunk) THEN offset + Len(chunk) ELSE @]

\* the bytes of the chunk at offset
LargeChunk(gb, offset) ==
    Utf8Encode(gbGetTextChunk(gb, offset,
                              IF offset + replaceChunkSize > gbGetLength(gb)
                              THEN gbGetLength(gb) ELSE offset + replaceChunkSize))

\* the loop over the chunks, from offset
RECURSIVE ChunkLoop(_, _, _, _, _, _, _)
ChunkLoop(gb, searchText, replaceText, caseSensitive, wholeWord, offset, acc) ==
    IF acc.outcome # "done" \/ offset >= gbGetLength(gb) THEN acc
    ELSE ChunkLoop(gb, searchText, replaceText, caseSensitive, wholeWord,
                   offset + replaceChunkSize,
                   ChunkDone(LargeChunk(gb, offset), offset,
                             ChunkScan(LargeChunk(gb, offset),
                                       Searched(LargeChunk(gb, offset), caseSensitive),
                                       Searched(Utf8Encode(searchText), caseSensitive),
                                       Utf8Encode(replaceText), wholeWord, offset, 0, acc)))

\* ReplaceAllLarge with the lock held and the loop done, for a text above the
\* threshold
ReplacedChunked(s, acc) ==
    IF acc.outcome = "panic" THEN Panic(s, "slice bounds out of range")
    ELSE IF acc.count = 0 THEN Return([Unlock(s) EXCEPT !.result = 0], "nil")
    ELSE LET s1 == Wr(s, "undoStack", usClear(s.undoStack))
             s2 == Wr(s1, "gapBuffer", gbSetText(s1.gapBuffer, Utf8Decode(acc.built)))
             s3 == Wr(s2, "modified", TRUE)
             s4 == Unlock(s3)
             s5 == triggerEvent(s4, EventTextChanged, OperationReplace)
         IN Return([s5 EXCEPT !.result = acc.count], "nil")

\* ReplaceAllLarge with the lock held and the loop done, for a text below the
\* threshold
ReplacedSmall(s, originalText, acc) ==
    IF acc.outcome = "hang" THEN [s EXCEPT !.blocked = TRUE]
    ELSE IF acc.outcome = "panic" THEN Panic(WrGb(s, acc.gb), "index out of range")
    ELSE IF acc.count = 0 THEN Return([Unlock(WrGb(s, acc.gb)) EXCEPT !.result = 0], "nil")
    ELSE LET s1 == Wr(s, "undoStack",
                      usPush(s.undoStack, [Type |-> OperationReplace,
                                           Position |-> [Line |-> 0, Column |-> 0],
                                           Text |-> SmallRest(s.gapBuffer, acc),
                                           OldText |-> originalText]))
             s2 == Wr(s1, "gapBuffer", gbSetText(s1.gapBuffer, SmallRest(s.gapBuffer, acc)))
             s3 == Wr(s2, "modified", TRUE)
             s4 == Unlock(s3)
             s5 == triggerEvent(s4, EventTextChanged, OperationReplace)
         IN Return([s5 EXCEPT !.result = acc.count], "nil")

\* ReplaceAllLarge(searchText, replaceText, caseSensitive, wholeWord, regex)
ReplaceAllLarge(s, searchText, replaceText, caseSensitive, wholeWord, regex) ==
    IF searchText = <<>> THEN Return(s, "search text cannot be empty")
    ELSE IF regex
    THEN ReplaceAll(s, searchText, replaceText, caseSensitive, wholeWord, regex)
    ELSE IF gbGetLength(s.gapBuffer) > largeTextThreshold
    THEN ReplacedChunked(Lock(s),
                         ChunkLoop(s.gapBuffer, searchText, replaceText, caseSensitive,
                                   wholeWord, 0, NoMatches(s.gapBuffer)))
    ELSE ReplacedSmall(WrGb(Lock(s), gbAfterGetText(s.gapBuffer)),
                       gbGetText(s.gapBuffer),
                       SmallLoop(gbAfterGetText(s.gapBuffer), searchText, replaceText,
                                 caseSensitive, wholeWord, [Line |-> 0, Column |-> 0],
                                 NoMatches(gbAfterGetText(s.gapBuffer)),
                                 2 * MaxLargeLen + 2))

\* the inputs of the large-text operations
LargeInitTexts == {<<>>, <<97, LF>>, <<233, 97, 97, 97>>, <<97, 97, LF, 97>>}
LargePositions == Positions \cup {[Line |-> 1, Column |-> 1]}
LargeRanges == {[Start |-> a, End |-> b] : a \in LargePositions, b \in LargePositions}
LargeInsertTexts == {<<>>, <<97>>, <<233>>, <<97, 97, 97>>}

\* the outcomes s and plain of two calls are the same to the caller: the
\* error, the count returned and the text left
SameOutcome(s, plain) ==
    /\ s.err = plain.err
    /\ s.result = plain.result
    /\ s.blocked = plain.blocked /\ s.crashed = plain.crashed
    /\ gbGetText(s.gapBuffer) = gbGetText(plain.gapBuffer)

\* the call op ran from Self to s; edit: "none" when it changed nothing,
\* "below" and "above" for an edit below and above the size the operation
\* tests; plain: the outcome of the plain operation on the same arguments
LargeCallAgainst(op, s, edit, plain) ==
    /\ ~call.blocked /\ ~call.crashed
    /\ Len(s.gapBuffer.buf) <= MaxLargeLen
    /\ gapBuffer' = s.gapBuffer
    /\ undoStack' = s.undoStack
    /\ eolType' = s.eolType
    /\ languageID' = s.languageID
    /\ filePath' = s.filePath
    /\ modified' = s.modified
    /\ mutex' = s.mutex
    /\ disk' = s.disk
    /\ call' = [op |-> op, calls |-> call.calls + 1, err |-> s.err, result |-> s.result,
                blocked |-> s.blocked, crashed |-> s.crashed, edit |-> edit,
                same |-> SameOutcome(s, plain)]
    /\ UNCHANGED <<history, stack, stackLog, threads, dispatch, pool, savedText>>

LargeCall(op, s, edit) == LargeCallAgainst(op, s, edit, s)

\* the number of runes between the offsets of r.Start and r.End
RangeSize(gb, r) == gbGetOffsetAt(gb, r.End) - gbGetOffsetAt(gb, r.Start)

DoInsertLargeText ==
    \E position \in LargePositions, text \in LargeInsertTexts :
        LargeCall("InsertLargeText", InsertLargeText(Self, position, text),
                  IF text = <<>> THEN "none"
                  ELSE IF ByteLen(text) < maxGapSize THEN "below" ELSE "above")

DoDeleteLargeRange ==
    \E r \in LargeRanges :
        LargeCall("DeleteLargeRange", DeleteLargeRange(Self, r),
                  IF RangeSize(gapBuffer, r) <= 0 THEN "none"
                  ELSE IF RangeSize(gapBuffer, r) < maxGapSize THEN "below" ELSE "above")

DoReplaceLargeRange ==
    \E r \in LargeRanges, text \in LargeInsertTexts :
        LargeCall("ReplaceLargeRange", ReplaceLargeRange(Self, r, text),
                  IF RangeSize(gapBuffer, r) < 0 THEN "none"
                  ELSE IF RangeSize(gapBuffer, r) < maxGapSize /\ Len(text) < maxGapSize
                  THEN "below" ELSE "above")

\* the result of ReplaceAllLarge and the kind of edit it made
ReplacedAllLarge(s, size, plain) ==
    LargeCallAgainst("ReplaceAllLarge", s,
                     IF s.err # "nil" \/ s.result = 0 THEN "none"
                     ELSE IF size > largeTextThreshold THEN "above" ELSE "below",
                     plain)

DoReplaceAllLarge ==
    \E searchText \in {<<97>>, <<97, 97>>}, replaceText \in {<<>>, <<LF>>, <<98>>},
       caseSensitive \in BOOLEAN, wholeWord \in BOOLEAN, regex \in BOOLEAN :
        ReplacedAllLarge(ReplaceAllLarge(Self, searchText, replaceText, caseSensitive,
                                         wholeWord, regex),
                         gbGetLength(gapBuffer),
                         ReplaceAll(Self, searchText, replaceText, caseSensitive, wholeWord,
                                    regex))

LargeInsert ==
    \E position \in LargePositions, text \in InsertTexts :
        LargeCall("Insert", Insert(Self, position, text), "none")

LargeDelete == \E r \in LargeRanges : LargeCall("Delete", Delete(Self, r), "none")

LargeClear == LargeCall("Clear", Clear(Self), "none")

LargeSetText == \E text \in LargeInitTexts : LargeCall("SetText", SetText(Self, text), "none")

LargeUndo == LargeCall("Undo", Undo(Self), "none")

LargeGetText == LargeCall("GetText", GetText(Self), "none")

LargeGetLineCount == LargeCall("GetLineCount", GetLineCount(Self), "none")

LargeGetLineContent ==
    \E lineIndex \in 0..1 :
        LargeCall("GetLineContent", GetLineContent(Self, lineIndex), "none")

LargeMore == call.calls < MaxLargeCalls

NextLarge ==
    \/ LargeMore /\ DoInsertLargeText
    \/ LargeMore /\ DoDeleteLargeRange
    \/ LargeMore /\ DoReplaceLargeRange
    \/ LargeMore /\ DoReplaceAllLarge
    \/ LargeMore /\ LargeInsert
    \/ LargeMore /\ LargeDelete
    \/ LargeMore /\ LargeClear
    \/ LargeMore /\ LargeSetText
    \/ LargeMore /\ LargeUndo
    \/ LargeMore /\ LargeGetText
    \/ LargeMore /\ LargeGetLineCount
    \/ LargeMore /\ LargeGetLineContent

SpecLarge == InitWith(LargeInitTexts) /\ [][NextLarge]_vars

\* the values of the three caches recomputed from the content
StrictlyIncreasing(seq) == \A i \in 1..(Len(seq) - 1) : seq[i] < seq[i + 1]

LargeEditStep ==
    /\ (call'.op \in {"InsertLargeText", "DeleteLargeRange", "ReplaceLargeRange"}
        /\ call'.edit = "below")
          => /\ Len(undoStack'.undoStack) = Len(undoStack.undoStack) + 1
             /\ SubSeq(undoStack'.undoStack, 1, Len(undoStack.undoStack)) = undoStack.undoStack
             /\ undoStack'.redoStack = <<>>
    /\ (call'.op \in {"InsertLargeText", "DeleteLargeRange", "ReplaceLargeRange", "ReplaceAllLarge"}
        /\ call'.edit = "above")
          => /\ undoStack'.undoStack = <<>>
             /\ undoStack'.redoStack = <<>>
             /\ \A after \in {Self'} : Undo(after).err = "no operation to undo"

\* C33: the undo policy of the large edits: InsertLargeText, DeleteLargeRange
\* and ReplaceLargeRange push exactly one undo record when the edit is below
\* the size threshold and otherwise empty the undo log, past and future,
\* without pushing; ReplaceAllLarge on a text longer than the large-text
\* threshold that replaces at least one match empties the undo log; so after
\* an edit above the threshold Undo() fails with no operation to undo.
C33_LargeEditUndoPolicy == [][LargeEditStep]_vars

\* the text with every multi-byte scalar replaced by a one-byte letter: the
\* same scalars line by line, and every scalar one unit
OneUnit(text) == [i \in 1..Len(text) |-> IF Utf8Len(text[i]) > 1 THEN 98 ELSE text[i]]

\* the buffer that holds OneUnit of the text
OneUnitBuffer == NewGapBufferWithText(OneUnit(Text))

\* FindNext for "a" from p, on the text and on OneUnit of the text
FindsAlike(p, wholeWord) ==
    LET found == FindNext(Self, <<97>>, p, TRUE, wholeWord, FALSE)
        unit == FindNext([Self EXCEPT !.gapBuffer = OneUnitBuffer], <<97>>, p, TRUE,
                         wholeWord, FALSE)
    IN /\ found.err = unit.err
       /\ found.err \notin Panics => found.result = unit.result

\* C34: offsets, columns and match boundaries are counted in Unicode scalars,
\* never in UTF-8 bytes: for a text with multi-byte scalars the line-start
\* index, GetLineContent, GetPositionAt, GetOffsetAt, the range FindNext
\* returns and the outcome of the whole-word test are those of the text where
\* every scalar is one unit.
C34_CountedInScalars ==
    /\ gbUpdateLineStartCache(gbInvalidate(gapBuffer)).lineStartCache
          = gbUpdateLineStartCache(gbInvalidate(OneUnitBuffer)).lineStartCache
    /\ \A i \in LineIndices :
          OneUnit(gbGetLineContent(gapBuffer, i)) = gbGetLineContent(OneUnitBuffer, i)
    /\ \A o \in Offsets : gbGetPositionAt(gapBuffer, o) = gbGetPositionAt(OneUnitBuffer, o)
    /\ \A p \in QueryPositions : gbGetOffsetAt(gapBuffer, p) = gbGetOffsetAt(OneUnitBuffer, p)
    /\ \A p \in Positions, wholeWord \in BOOLEAN : FindsAlike(p, wholeWord)

(***************************************************************************)
(* The MemoryPool under GetBuffer and PutBuffer from any number of         *)
(* callers: each call is one step, sync.Pool being safe for concurrent     *)
(* use.                                                                    *)
(***************************************************************************)
\* the largest size asked for and the largest capacity given back
MaxPoolArg == 7
MaxPoolCalls == 4

\* a call on the pool; minSize and cap: the size asked for and the capacity
\* of the buffer in play, len: the length of the buffer returned
PoolCall(op, mp, minSize, capacity) ==
    /\ call.calls < MaxPoolCalls
    /\ pool' = mp
    /\ call' = [op |-> op, calls |-> call.calls + 1, minSize |-> minSize, cap |-> capacity,
                len |-> 0]
    /\ UNCHANGED <<gapBuffer, undoStack, eolType, languageID, filePath, modified, mutex, disk>>
    /\ UNCHANGED <<history, stack, stackLog, threads, dispatch, savedText>>

PoolNew == \E maxSize \in {2, poolMaxSize} : PoolCall("NewMemoryPool", NewMemoryPool(maxSize), 0, 0)

PoolGetBuffer ==
    \E minSize \in 1..MaxPoolArg :
        \E got \in GetBuffer(pool, minSize) : PoolCall("GetBuffer", got.mp, minSize, got.cap)

PoolPutBuffer ==
    \E capacity \in 0..MaxPoolArg : PoolCall("PutBuffer", PutBuffer(pool, capacity), 0, capacity)

NextPool ==
    \/ PoolNew
    \/ PoolGetBuffer
    \/ PoolPutBuffer

SpecPool == InitWith({<<>>}) /\ [][NextPool]_vars

\* C35: GetBuffer(minSize) returns an empty buffer of capacity >= minSize,
\* for every minSize > 0, the sizes between the largest size step and maxSize
\* included, after any sequence of GetBuffer and PutBuffer calls with buffers
\* of any capacity.
C35_GetBufferIsLargeEnough ==
    call.op = "GetBuffer" => call.len = 0 /\ call.cap >= call.minSize

\* chunkSize, scaled down from 1048576 with maxGapSize
chunkSize == 2

\* what the chunked branch of SaveToFile writes from offset on: the chunks of
\* chunkSize runes GetTextChunk returns, one after the other
RECURSIVE ChunkedWrite(_, _)
ChunkedWrite(g, offset) ==
    IF offset >= g.size THEN <<>>
    ELSE GetTextChunk(g, offset, IF offset + chunkSize > g.size THEN g.size
                                 ELSE offset + chunkSize)
         \o ChunkedWrite(g, offset + chunkSize)

\* C36: chunked reads agree with ranged reads: in every state of a
\* well-formed gap buffer, for every range and wherever the gap lies, a gap
\* that is not empty and starts at the start of the range included,
\* GetTextChunk(s, e) is GetTextInRange(s, e); and what the chunked branch
\* of SaveToFile writes for a text above the threshold is GetText().
C36_ChunkedReadsAgree ==
    (C30_GapStructure /\ ~gapBuffer.panic) =>
        /\ \A s \in 0..gapBuffer.size, e \in 0..gapBuffer.size :
              s < e => GetTextChunk(gapBuffer, s, e) = gapGetTextInRange(gapBuffer, s, e)
        /\ gapBuffer.size > largeTextThreshold =>
              ChunkedWrite(gapBuffer, 0) = gapGetText(gapBuffer)

\* C37: the optimised replace is observationally equal to the plain one:
\* on the same content and arguments ReplaceAllLarge gives the count, the
\* error (not found when nothing matches) and the text ReplaceAll gives,
\* below the large-text threshold and above it, in whole-word mode and for
\* matches that straddle a chunk boundary.
C37_ReplaceAllLargeRefinesReplaceAll == call.op = "ReplaceAllLarge" => call.same

(***************************************************************************)
(* The modified flag against the text at creation or at the last           *)
(* successful SaveToFile or LoadFromFile, which savedText follows.         *)
(***************************************************************************)
MaxModifiedCalls == 3

\* the state after NewTextBufferWithText(text): the text at creation is the reference
InitModified ==
    /\ \E text \in InitTexts :
        /\ gapBuffer = NewGapBufferWithText(text)
        /\ savedText = text
    /\ eolType = EOLUnix
    /\ history = [phase |-> "off"]
    /\ InitFields

\* one call of a public operation from outside, a successful save or load moving the reference
ModifiedCall(op, s) ==
    /\ ~call.blocked /\ ~call.crashed
    /\ call.calls < MaxModifiedCalls
    /\ gapBuffer' = s.gapBuffer
    /\ undoStack' = s.undoStack
    /\ eolType' = s.eolType
    /\ languageID' = s.languageID
    /\ filePath' = s.filePath
    /\ modified' = s.modified
    /\ mutex' = s.mutex
    /\ disk' = s.disk
    /\ call' = [op |-> op, calls |-> call.calls + 1, err |-> s.err,
                blocked |-> s.blocked, crashed |-> s.crashed]
    /\ savedText' = IF /\ op \in {"SaveToFile", "LoadFromFile"}
                       /\ s.err = "nil" /\ ~s.blocked /\ ~s.crashed
                    THEN gbGetText(s.gapBuffer)
                    ELSE savedText
    /\ UNCHANGED <<history, stack, stackLog, threads, dispatch, pool>>

ModifiedInsert ==
    \E position \in Positions, text \in InsertTexts :
        ModifiedCall("Insert", Insert(Self, position, text))

ModifiedDelete == \E r \in Ranges : ModifiedCall("Delete", Delete(Self, r))

ModifiedReplace ==
    \E r \in Ranges, text \in InsertTexts : ModifiedCall("Replace", Replace(Self, r, text))

ModifiedReplaceAll ==
    \E searchText \in {<<97>>}, replaceText \in {<<>>, <<98>>} :
        ModifiedCall("ReplaceAll", ReplaceAll(Self, searchText, replaceText, TRUE, FALSE, FALSE))

ModifiedClear == ModifiedCall("Clear", Clear(Self))

ModifiedSetText == \E text \in InitTexts : ModifiedCall("SetText", SetText(Self, text))

ModifiedSetEOLType ==
    \E t \in {EOLUnix, EOLWindows, EOLMac} : ModifiedCall("SetEOLType", SetEOLType(Self, t))

ModifiedUndo == ModifiedCall("Undo", Undo(Self))

ModifiedRedo == ModifiedCall("Redo", Redo(Self))

ModifiedSaveToFile == \E path \in Paths : ModifiedCall("SaveToFile", SaveToFile(Self, path))

ModifiedLoadFromFile ==
    \E path \in Paths : ModifiedCall("LoadFromFile", LoadFromFile(Self, path))

NextModified ==
    \/ ModifiedInsert
    \/ ModifiedDelete
    \/ ModifiedReplace
    \/ ModifiedReplaceAll
    \/ ModifiedClear
    \/ ModifiedSetText
    \/ ModifiedSetEOLType
    \/ ModifiedUndo
    \/ ModifiedRedo
    \/ ModifiedSaveToFile
    \/ ModifiedLoadFromFile

SpecModified == InitModified /\ [][NextModified]_vars

\* C38: whenever the text differs from the text at creation or at the last successful
\* SaveToFile or LoadFromFile, and no call is stuck or has panicked, the modified flag is set.
C38_ModifiedNeverUnderReports ==
    (~call.blocked /\ ~call.crashed /\ Text # savedText) => modified

(***************************************************************************)
(* The buffer lock under concurrency.  Two goroutines call GetText,        *)
(* FindNext, FindPrevious, FindNextLarge with a regex, SaveToFile and      *)
(* Insert; each call is the sequence of its Lock, RLock, Unlock and        *)
(* RUnlock steps, triggerEvent's included.  sync.RWMutex lets no new       *)
(* reader in while a writer waits in Lock: a goroutine at pc "Lock" is     *)
(* that writer.                                                            *)
(***************************************************************************)
MaxLockCalls == 3

\* the calls made so far by the two goroutines
LockCalls == threads["t1"].calls + threads["t2"].calls

\* the buffer as the calling goroutine meets it once it is let in
Alone == [Self EXCEPT !.mutex = [writer |-> FALSE, readers |-> 0]]

\* n times the same step
Times(n, step) == [i \in 1..n |-> step]

\* the lock steps of n calls of triggerEvent
TriggerSteps(n) == [i \in 1..(2 * n) |-> IF i % 2 = 1 THEN "RLock" ELSE "RUnlock"]

\* the events of a call that were triggered with the caller's lock held
HeldEvents(events) == Cardinality({i \in DOMAIN events : events[i].held # "none"})

\* what follows the first acquisition in a call that triggered events: the
\* triggers made under the lock, its release, the triggers made after it
StepsAfter(release, events) ==
    TriggerSteps(HeldEvents(events)) \o <<release>>
        \o TriggerSteps(Len(events) - HeldEvents(events))

\* the activations of FindNext / FindPrevious (previous = TRUE) a call goes through:
\* one, and one more for each call of itself
RECURSIVE Activations(_, _, _, _, _, _, _)
Activations(gb, searchText, startPosition, caseSensitive, wholeWord, regex, previous) ==
    IF FindOnce(gb, searchText, startPosition, caseSensitive, wholeWord, regex,
                previous).err # "retry"
    THEN 1
    ELSE 1 + Activations(FindOnce(gb, searchText, startPosition, caseSensitive, wholeWord,
                                  regex, previous).gb,
                         searchText,
                         FindOnce(gb, searchText, startPosition, caseSensitive, wholeWord,
                                  regex, previous).retry,
                         caseSensitive, wholeWord, regex, previous)

\* what follows the first RLock of a FindNext of d activations: each further
\* activation takes the shared lock again, and every deferred RUnlock runs at the end
FindSteps(d) == Times(d - 1, "RLock") \o Times(d, "RUnlock")

\* another goroutine waits in Lock
Pending(t) == \E u \in Threads \ {t} : threads[u].pc = "Lock"

\* goroutine t inside a call of op, rest being the lock steps it still has to make
InCall(t, op, rest) ==
    [pc |-> "call", op |-> op, rest |-> rest, held |-> 1, calls |-> threads[t].calls + 1]

\* the fields a call leaves behind in s
LockEffects(s) ==
    /\ gapBuffer' = s.gapBuffer
    /\ undoStack' = s.undoStack
    /\ eolType' = s.eolType
    /\ languageID' = s.languageID
    /\ filePath' = s.filePath
    /\ modified' = s.modified
    /\ disk' = s.disk
    /\ UNCHANGED <<call, history, stack, stackLog, dispatch, pool, savedText>>

\* goroutine t enters op with tb.mutex.RLock() and runs it to s; rest: the lock steps left
LockEnter(t, op, s, rest) ==
    /\ threads[t].pc = "idle"
    /\ LockCalls < MaxLockCalls
    /\ ~mutex.writer /\ ~Pending(t)
    /\ ~s.crashed
    /\ mutex' = [mutex EXCEPT !.readers = @ + 1]
    /\ threads' = [threads EXCEPT ![t] = InCall(t, op, rest)]
    /\ LockEffects(s)

LockGetText == \E t \in Threads : LockEnter(t, "GetText", GetText(Alone), <<"RUnlock">>)

LockFindNext ==
    \E t \in Threads, position \in Positions, wholeWord \in BOOLEAN :
        LockEnter(t, "FindNext", FindNext(Alone, <<97>>, position, TRUE, wholeWord, FALSE),
                  FindSteps(Activations(gapBuffer, <<97>>, position, TRUE, wholeWord, FALSE,
                                        FALSE)))

LockFindPrevious ==
    \E t \in Threads, position \in Positions, wholeWord \in BOOLEAN :
        LockEnter(t, "FindPrevious",
                  FindPrevious(Alone, <<97>>, position, TRUE, wholeWord, FALSE),
                  FindSteps(Activations(gapBuffer, <<97>>, position, TRUE, wholeWord, FALSE,
                                        TRUE)))

\* FindNextLarge with regex: RLock with a deferred RUnlock, then tb.FindNext
LockFindNextLarge ==
    \E t \in Threads, position \in Positions :
        LockEnter(t, "FindNextLarge", FindNext(Alone, <<97>>, position, TRUE, FALSE, TRUE),
                  <<"RLock">>
                      \o FindSteps(Activations(gapBuffer, <<97>>, position, TRUE, FALSE, TRUE,
                                               FALSE))
                      \o <<"RUnlock">>)

LockSaveToFile ==
    \E t \in Threads, path \in Paths :
        LockEnter(t, "SaveToFile", SaveToFile(Alone, path),
                  StepsAfter("RUnlock", SaveToFile(Alone, path).events))

\* Insert of a non-empty text calls tb.mutex.Lock(): the goroutine waits in it
LockInsert ==
    \E t \in Threads, position \in Positions, text \in InsertTexts \ {<<>>} :
        /\ threads[t].pc = "idle"
        /\ LockCalls < MaxLockCalls
        /\ threads' = [threads EXCEPT ![t] =
                         [pc |-> "Lock", op |-> "Insert", position |-> position, text |-> text,
                          rest |-> <<>>, held |-> 0, calls |-> threads[t].calls]]
        /\ UNCHANGED <<gapBuffer, undoStack, modified, mutex, others>>

\* the Lock returns once no goroutine holds the mutex, and Insert runs to its Unlock
LockAcquire ==
    \E t \in Threads :
        /\ threads[t].pc = "Lock"
        /\ ~mutex.writer /\ mutex.readers = 0
        /\ mutex' = [mutex EXCEPT !.writer = TRUE]
        /\ threads' = [threads EXCEPT ![t] =
                         InCall(t, "Insert",
                                StepsAfter("Unlock",
                                           Insert(Alone, threads[t].position,
                                                  threads[t].text).events))]
        /\ LockEffects(Insert(Alone, threads[t].position, threads[t].text))

\* goroutine t after its next lock step, back outside when none is left
Stepped(t, held) ==
    IF Len(threads[t].rest) = 1 THEN [Idle EXCEPT !.calls = threads[t].calls]
    ELSE [threads[t] EXCEPT !.rest = Tail(@), !.held = held]

\* goroutine t is at the lock step named
AtStep(t, step) ==
    /\ threads[t].pc = "call"
    /\ Head(threads[t].rest) = step

\* tb.mutex.RLock() inside a call: it waits while a writer holds the mutex or waits for it
LockRLock ==
    \E t \in Threads :
        /\ AtStep(t, "RLock")
        /\ ~mutex.writer /\ ~Pending(t)
        /\ mutex' = [mutex EXCEPT !.readers = @ + 1]
        /\ threads' = [threads EXCEPT ![t] = Stepped(t, threads[t].held + 1)]
        /\ UNCHANGED <<gapBuffer, undoStack, modified, others>>

LockRUnlock ==
    \E t \in Threads :
        /\ AtStep(t, "RUnlock")
        /\ mutex' = [mutex EXCEPT !.readers = @ - 1]
        /\ threads' = [threads EXCEPT ![t] = Stepped(t, threads[t].held - 1)]
        /\ UNCHANGED <<gapBuffer, undoStack, modified, others>>

LockUnlock ==
    \E t \in Threads :
        /\ AtStep(t, "Unlock")
        /\ mutex' = [mutex EXCEPT !.writer = FALSE]
        /\ threads' = [threads EXCEPT ![t] = Stepped(t, threads[t].held - 1)]
        /\ UNCHANGED <<gapBuffer, undoStack, modified, others>>

NextLocks ==
    \/ LockGetText
    \/ LockFindNext
    \/ LockFindPrevious
    \/ LockFindNextLarge
    \/ LockSaveToFile
    \/ LockInsert
    \/ LockAcquire
    \/ LockRLock
    \/ LockRUnlock
    \/ LockUnlock

\* the texts the buffer is created with: in the second a whole-word search for "a"
\* passes two matches inside "aa" before the match it returns
LockTexts == {<<97, LF>>, <<97, 97, LF, 97>>}

SpecLocks == InitWith(LockTexts) /\ [][NextLocks]_vars

\* goroutine t, inside a call, can make its next step
CanStep(t) ==
    \/ threads[t].pc = "Lock" /\ ~mutex.writer /\ mutex.readers = 0
    \/ AtStep(t, "RLock") /\ ~mutex.writer /\ ~Pending(t)
    \/ AtStep(t, "RUnlock")
    \/ AtStep(t, "Unlock")

\* a goroutine inside a call asks for the mutex while its call holds it
SelfAcquire == \E t \in Threads : AtStep(t, "RLock") /\ threads[t].held > 0

\* some goroutine is inside a call and none can make a step
Deadlocked ==
    /\ \E t \in Threads : threads[t].pc # "idle"
    /\ \A t \in Threads : threads[t].pc # "idle" => ~CanStep(t)

\* C39: deadlock freedom under concurrency: no call of a reader operation, of
\* SaveToFile or of a writer operation asks for the buffer lock while it holds it, and
\* the goroutines never reach a state where calls are open and none can go on.
C39_DeadlockFreedom == ~SelfAcquire /\ ~Deadlocked

\* the step is a successful Insert or Delete whose start position is not addressable in
\* the text it was applied to, so that the offset it used was clamped
ClampedEdit ==
    /\ call'.op \in {"Insert", "Delete"}
    /\ call'.err = "nil" /\ call'.pushed
    /\ ~call'.blocked /\ ~call'.crashed
    /\ ~call'.addressable.start

\* C40: Undo is exact also for clamped positions: after an Insert or a Delete whose
\* start position is not addressable, Undo() restores the text the edit was applied to,
\* and Redo() after it gives the text the edit left.
C40_UndoExactWhenClamped ==
    [][ClampedEdit =>
          \A after \in {Self'} :
              /\ gbGetText(Undo(after).gapBuffer) = Text
              /\ gbGetText(Redo(Undo(after)).gapBuffer) = gbGetText(after.gapBuffer)]_vars

====
